---- MODULE Spec2Model ----
(***************************************************************************)
(* Model of the flashcard extension's core: the spaced-repetition          *)
(* algorithm (src/core/algorithm.js), the FlashcardManager                 *)
(* (src/core/flashcards.js), the Scheduler (src/core/scheduler.js) and the *)
(* persisted progress they share (src/core/storage.js).                    *)
(*                                                                         *)
(* Units.  An interval is an integer number of hundredths of a day (the    *)
(* code rounds every stored interval to two decimals).  A timestamp is an  *)
(* integer number of hundredths of a day as well; Date.now() only takes    *)
(* values on that grid, so "now >= dueDate" for a due date between two     *)
(* grid points is decided by the due date rounded up (CeilTicks).  The     *)
(* interval before rounding is an exact fraction [n, d] of a day.          *)
(*                                                                         *)
(* Specifications.                                                         *)
(*   Spec        one content-script context: every Scheduler call is       *)
(*               awaited before the next one starts, storage writes        *)
(*               succeed, nothing else writes the persisted progress.      *)
(*   SpecFaults  the same context with storage writes that may report      *)
(*               failure and the popup resetting the persisted progress.   *)
(*   SpecAlg     SpacedRepetitionAlgorithm.calculateReview applied to      *)
(*               input records and configurations drawn from bounded sets. *)
(*   SpecConfig  the algorithm's configuration: loadConfig, updateConfig,  *)
(*               then one calculateReview or calculateInitialEase call.    *)
(*   SpecPages   storage.addExcludedPage and removeExcludedPage, awaited.  *)
(*   SpecOverlay one page with its overlay: page loads, the panel's Show   *)
(*               button, Close, Escape, the stop button; async calls       *)
(*               suspend at their storage awaits.                          *)
(*   SpecReview  the overlay's review buttons and resetProgress, with      *)
(*               recordReview suspended at its writes.                     *)
(*   SpecTabs    two contexts over one storage, each with its own copy of  *)
(*               the progress.                                             *)
(*   SpecToggle  the excluded pages as the control panel, the page API and *)
(*               the popup write them, matched by URLMatcher.              *)
(***************************************************************************)
EXTENDS Integers, Sequences, FiniteSets, TLC

VARIABLES
  deps,          \* Scheduler.flashcardManager and Scheduler.algorithm are set
  flashcards,    \* FlashcardManager.flashcards: sequence of catalog ids
  progress,      \* FlashcardManager.progress, NullProgress before loadProgress
  store,         \* what storage.getProgress() returns (persisted progress)
  config,        \* SpacedRepetitionAlgorithm.config
  configLoaded,  \* SpacedRepetitionAlgorithm.configLoaded
  now,           \* Date.now()
  failures,      \* storage writes that reported failure so far
  extChanged,    \* persisted progress was changed outside since this context last read it
  ret,           \* the last call: operation, arguments, how it ended, what it returned
  calc,          \* SpecAlg, SpecConfig: a call of the algorithm, its input and its result
  savedConfig,   \* what storage.getAlgorithmConfig() returns
  excluded,      \* what storage.getExcludedPages() returns
  tasks,         \* async calls suspended at an await, each with where it resumes
  overlay,       \* OverlayManager's fields, body.style.overflow, keydown listeners
  other,         \* FlashcardManager.progress of a second context (another tab)
  stopUntil,     \* what storage.getStopUntil() returns
  location       \* window.location.href of the tab

\* the page around the Scheduler: suspended calls, overlay, second context,
\* stop period, address
pageVars == <<tasks, overlay, other, stopUntil, location>>

vars == <<deps, flashcards, progress, store, config, configLoaded, now,
          failures, extChanged, ret, calc, savedConfig, excluded, tasks,
          overlay, other, stopUntil, location>>

-----------------------------------------------------------------------------
(* Bounds of the model *)

\* recordReview calls that reach the algorithm, counted by the stored reviewCounts
MaxReviews == 2
\* days the clock may advance
MaxDays == 1
\* length of the repeatLater queue
MaxLater == 2
\* storage writes that may report failure
MaxFailures == 1

-----------------------------------------------------------------------------
(* JavaScript values *)

\* null (a number field that holds null)
Null == 0 - 1
\* undefined (a property the object does not have)
Undefined == 0 - 2
\* no flashcard / no id
NullId == "null"

\* !x for a number field
Falsy(x) == x = Null \/ x = Undefined \/ x = 0
\* ToNumber(x) in arithmetic: null is 0
ToNumber(x) == IF x = Null THEN 0 ELSE x
\* x || 0
OrZero(x) == IF Falsy(x) THEN 0 ELSE x

\* storage.getAlgorithmConfig() = null: no configuration was ever saved
NoSavedConfig == [isNull |-> TRUE]
IsNullConfig(c) == "isNull" \in DOMAIN c

-----------------------------------------------------------------------------
(* src/utils/constants.js *)

HARD == "hard"
GOOD == "good"
EASY == "easy"
REVIEW_DIFFICULTY == {HARD, GOOD, EASY}

DEFAULT_ALGORITHM_CONFIG ==
  [baseEase |-> 250, intervalChangeHard |-> 50, easyBonus |-> 130,
   enableLoadBalancer |-> TRUE, maxIntervalDays |-> 36525,
   maxLinkContribution |-> 50]

\* the first-review table with Hard and Good exchanged
DEFAULT_INTERVALS_Exchanged(difficulty) ==
  CASE difficulty = HARD -> 100
    [] difficulty = GOOD -> 50
    [] difficulty = EASY -> 400

\* first-review intervals, in hundredths of a day
DEFAULT_INTERVALS(difficulty) ==
  CASE difficulty = HARD -> 50
    [] difficulty = GOOD -> 100
    [] difficulty = EASY -> 400

\* one day (24 * 60 * 60 * 1000 ms) in ticks of a hundredth of a day
Day == 100

-----------------------------------------------------------------------------
(* Exact fractions [n, d] of a day, kept in lowest terms *)

RECURSIVE GCD(_, _)
GCD(a, b) == IF b = 0 THEN a ELSE GCD(b, a % b)

Q(n, d) == LET g == GCD(n, d) IN [n |-> n \div g, d |-> d \div g]

\* q * (a / b), cancelling before multiplying
QMul(q, a, b) ==
  LET g1 == GCD(q.n, b)
      g2 == GCD(a, q.d)
      h1 == IF g1 = 0 THEN 1 ELSE g1
      h2 == IF g2 = 0 THEN 1 ELSE g2
  IN  Q((q.n \div h1) * (a \div h2), (q.d \div h2) * (b \div h1))

\* q >= 1
QAtLeastOne(q) == q.n >= q.d

\* Math.min left out
QMinOff(q, m) == q

\* Math.min(q, m) for an integer m
QMin(q, m) ==
  LET whole == q.n \div q.d
  IN  IF whole > m \/ (whole = m /\ q.n % q.d # 0) THEN [n |-> m, d |-> 1] ELSE q

\* Math.round(q * 100): hundredths of a day, halves rounded up
RoundHundredths(q) == (200 * q.n + q.d) \div (2 * q.d)

\* q days as ticks, rounded up to the grid of the clock
CeilTicks(q) == (Day * q.n + q.d - 1) \div q.d

-----------------------------------------------------------------------------
(* src/core/algorithm.js: SpacedRepetitionAlgorithm *)

\* Math.random() takes the value k / 10 for k in RandGrid; the samples the
\* Scheduler runs use
RandGrid == 0..9
RandSet == {0, 5}

\* applyLoadBalancer with a variation of 0.5 instead of 0.05
applyLoadBalancerWide(interval, k) ==
  IF ~QAtLeastOne(interval) THEN interval ELSE QMul(interval, 50 + 10 * k, 100)

\* applyLoadBalancer: interval * (1 + (random * 2 - 1) * 0.05), random = k / 10
applyLoadBalancer(interval, k) ==
  IF ~QAtLeastOne(interval) THEN interval ELSE QMul(interval, 95 + k, 100)

\* the configuration calculateReview uses (and stores in this.config)
EffectiveConfig(cfg, loaded) == IF ~loaded THEN DEFAULT_ALGORITHM_CONFIG ELSE cfg

\* Math.round(newEase) where newEase may be null
RoundEase(e) == ToNumber(e)

\* the switch with Hard multiplying by ease like Good
SubsequentReviewHardByEase(interval, ease, difficulty, cfg) ==
  CASE difficulty = HARD ->
         [interval |-> QMul(Q(interval, 100), ToNumber(ease), 100),
          ease |-> IF ToNumber(ease) - 20 > 130 THEN ToNumber(ease) - 20 ELSE 130]
    [] difficulty = GOOD ->
         [interval |-> QMul(Q(interval, 100), ToNumber(ease), 100),
          ease |-> ease]
    [] difficulty = EASY ->
         [interval |-> QMul(QMul(Q(interval, 100), ToNumber(ease), 100),
                            cfg.easyBonus, 100),
          ease |-> ToNumber(ease) + 15]

\* the switch with Easy missing the easy bonus
SubsequentReviewNoBonus(interval, ease, difficulty, cfg) ==
  CASE difficulty = HARD ->
         [interval |-> QMul(Q(interval, 100), cfg.intervalChangeHard, 100),
          ease |-> IF ToNumber(ease) - 20 > 130 THEN ToNumber(ease) - 20 ELSE 130]
    [] difficulty = GOOD ->
         [interval |-> QMul(Q(interval, 100), ToNumber(ease), 100),
          ease |-> ease]
    [] difficulty = EASY ->
         [interval |-> QMul(Q(interval, 100), ToNumber(ease), 100),
          ease |-> ToNumber(ease) + 15]

\* the switch with Hard missing Math.max(130, ...)
SubsequentReviewNoFloor(interval, ease, difficulty, cfg) ==
  CASE difficulty = HARD ->
         [interval |-> QMul(Q(interval, 100), cfg.intervalChangeHard, 100),
          ease |-> ToNumber(ease) - 20]
    [] difficulty = GOOD ->
         [interval |-> QMul(Q(interval, 100), ToNumber(ease), 100),
          ease |-> ease]
    [] difficulty = EASY ->
         [interval |-> QMul(QMul(Q(interval, 100), ToNumber(ease), 100),
                            cfg.easyBonus, 100),
          ease |-> ToNumber(ease) + 15]

\* the switch on difficulty for reviewCount > 0: [interval, ease]
SubsequentReview(interval, ease, difficulty, cfg) ==
  CASE difficulty = HARD ->
         [interval |-> QMul(Q(interval, 100), cfg.intervalChangeHard, 100),
          ease |-> IF ToNumber(ease) - 20 > 130 THEN ToNumber(ease) - 20 ELSE 130]
    [] difficulty = GOOD ->
         [interval |-> QMul(Q(interval, 100), ToNumber(ease), 100),
          ease |-> ease]
    [] difficulty = EASY ->
         [interval |-> QMul(QMul(Q(interval, 100), ToNumber(ease), 100),
                            cfg.easyBonus, 100),
          ease |-> ToNumber(ease) + 15]

\* calculateReview up to the end of its if / switch: [interval, ease], the
\* interval before the load balancer and the cap
ReviewStep(flashcardData, difficulty, cfg) ==
  LET reviewCount == IF flashcardData.reviewCount = Undefined THEN 0
                     ELSE flashcardData.reviewCount
      ease == IF flashcardData.ease = Undefined THEN cfg.baseEase
              ELSE flashcardData.ease
      interval == IF flashcardData.interval = Undefined THEN 0
                  ELSE flashcardData.interval
  IN  IF reviewCount = 0
      THEN [interval |-> Q(DEFAULT_INTERVALS(difficulty), 100), ease |-> ease]
      ELSE SubsequentReview(interval, ease, difficulty, cfg)

\* "if (enableLoadBalancer && newInterval >= 1) newInterval = applyLoadBalancer(...)"
Balanced(interval, cfg, k) ==
  IF cfg.enableLoadBalancer /\ QAtLeastOne(interval)
  THEN applyLoadBalancer(interval, k)
  ELSE interval

\* newInterval after the cap, the value dueDate is computed from
NewInterval(flashcardData, difficulty, cfg, k) ==
  QMin(Balanced(ReviewStep(flashcardData, difficulty, cfg).interval, cfg, k),
       cfg.maxIntervalDays)

\* calculateReview with dueDate computed from the rounded interval it reports
calculateReviewDueFromRounded(flashcardData, difficulty, cfg, t, k) ==
  LET reviewCount == IF flashcardData.reviewCount = Undefined THEN 0
                     ELSE flashcardData.reviewCount
      step == ReviewStep(flashcardData, difficulty, cfg)
      newInterval == NewInterval(flashcardData, difficulty, cfg, k)
  IN  [reviewCount |-> reviewCount + 1,
       ease |-> RoundEase(step.ease),
       interval |-> RoundHundredths(newInterval),
       lastReview |-> t,
       dueDate |-> t + (RoundHundredths(newInterval) * Day) \div 100,
       difficulty |-> difficulty]

\* calculateReview that advances reviewCount and leaves both dates as they were
calculateReviewKeepsDates(flashcardData, difficulty, cfg, t, k) ==
  LET reviewCount == IF flashcardData.reviewCount = Undefined THEN 0
                     ELSE flashcardData.reviewCount
      step == ReviewStep(flashcardData, difficulty, cfg)
      newInterval == NewInterval(flashcardData, difficulty, cfg, k)
  IN  [reviewCount |-> reviewCount + 1,
       ease |-> RoundEase(step.ease),
       interval |-> RoundHundredths(newInterval),
       lastReview |-> flashcardData.lastReview,
       dueDate |-> flashcardData.dueDate,
       difficulty |-> difficulty]

\* calculateReview(flashcardData, difficulty) at time t with Math.random() = k / 10
calculateReview(flashcardData, difficulty, cfg, t, k) ==
  LET reviewCount == IF flashcardData.reviewCount = Undefined THEN 0
                     ELSE flashcardData.reviewCount
      step == ReviewStep(flashcardData, difficulty, cfg)
      newInterval == NewInterval(flashcardData, difficulty, cfg, k)
  IN  [reviewCount |-> reviewCount + 1,
       ease |-> RoundEase(step.ease),
       interval |-> RoundHundredths(newInterval),
       lastReview |-> t,
       dueDate |-> t + CeilTicks(newInterval),
       difficulty |-> difficulty]

\* isDue with a strict comparison
isDueStrictly(flashcardData, t) ==
  IF Falsy(flashcardData.dueDate) THEN TRUE ELSE t > flashcardData.dueDate

\* isDue(flashcardData) at time t
isDue(flashcardData, t) ==
  IF Falsy(flashcardData.dueDate) THEN TRUE ELSE t >= flashcardData.dueDate

\* { ...a, ...b }
Merge(a, b) ==
  [key \in DOMAIN a \cup DOMAIN b |-> IF key \in DOMAIN b THEN b[key] ELSE a[key]]

\* what loadConfig assigns to this.config for the saved configuration
loadConfig(saved) ==
  IF IsNullConfig(saved) THEN DEFAULT_ALGORITHM_CONFIG
  ELSE Merge(DEFAULT_ALGORITHM_CONFIG, saved)

\* what updateConfig assigns to this.config and saves
updateConfig(cfg, newConfig) == Merge(cfg, newConfig)

\* Math.round(n / d), halves rounded up, for n >= 0
RoundHalfUp(n, d) == (2 * n + d) \div (2 * d)

Max(a, b) == IF a >= b THEN a ELSE b

\* calculateInitialEase(options) under configuration cfg; maxLinkContribution / 100
\* is exact in binary for the percentages the model uses (0, 25, 50, 100)
calculateInitialEase(options, cfg) ==
  LET baseEase == cfg.baseEase
      linked == ~Falsy(options.linkedEase) /\ cfg.maxLinkContribution > 0
      ease == IF linked
              THEN RoundHalfUp(100 * baseEase
                               + (options.linkedEase - baseEase) * cfg.maxLinkContribution,
                               100)
              ELSE baseEase
  IN  Max(130, ease)

-----------------------------------------------------------------------------
(* src/core/storage.js and src/core/flashcards.js: FlashcardManager *)

\* the catalogs src/data/flashcards.json may hold: one card, two cards, or the
\* three cards the integration test loads
Catalogs == {<<"fc-1">>, <<"fc-1", "fc-2">>, <<"fc-1", "fc-2", "fc-3">>}

\* ids a caller may pass; with the one-card catalog two of them are no catalog item
Ids == {"fc-1", "fc-2", "fc-3"}

SeqRange(s) == {s[i] : i \in 1..Len(s)}
Includes(s, x) == x \in SeqRange(s)
RECURSIVE Filter(_, _)
Filter(s, keep) ==
  IF s = <<>> THEN <<>>
  ELSE IF s[1] \in keep THEN <<s[1]>> \o Filter(Tail(s), keep)
       ELSE Filter(Tail(s), keep)

\* FlashcardManager.progress = null
NullProgress == [isNull |-> TRUE]
IsNull(p) == "isNull" \in DOMAIN p

\* the default of storage.getProgress(), also what a reset writes
FreshProgress == [completed |-> <<>>, repeatLater |-> <<>>, flashcardData |-> <<>>]

DefaultFlashcardProgress ==
  [reviewCount |-> 0, ease |-> Null, interval |-> 0, lastReview |-> Null,
   dueDate |-> Null, difficulty |-> NullId]

getFlashcardById(cards, id) == IF Includes(cards, id) THEN id ELSE NullId

getFlashcardProgress(p, id) ==
  IF id \in DOMAIN p.flashcardData THEN p.flashcardData[id]
  ELSE DefaultFlashcardProgress

\* updateFlashcardProgress without the spread of the other cards' records
updateFlashcardProgressAlone(p, id, progressData) ==
  [p EXCEPT !.flashcardData = [i \in {id} |-> progressData]]

\* updateFlashcardProgress that stores nothing
updateFlashcardProgressSkipped(p, id, progressData) == p

\* the in-memory part of updateFlashcardProgress: { ...old, ...progressData }
updateFlashcardProgress(p, id, progressData) ==
  [p EXCEPT !.flashcardData =
     [i \in DOMAIN p.flashcardData \cup {id} |->
        IF i = id THEN progressData ELSE p.flashcardData[i]]]

\* markAsDone without the includes() test
markAsDoneAgain(p, id) == [p EXCEPT !.completed = Append(p.completed, id)]

\* the in-memory part of markAsDone
markAsDone(p, id) ==
  IF ~Includes(p.completed, id)
  THEN [p EXCEPT !.completed = Append(p.completed, id)]
  ELSE p

\* markForLater without the includes() test
markForLaterAgain(p, id) == [p EXCEPT !.repeatLater = Append(p.repeatLater, id)]

\* the in-memory part of FlashcardManager.markForLater
markForLaterMem(p, id) ==
  IF ~Includes(p.repeatLater, id)
  THEN [p EXCEPT !.repeatLater = Append(p.repeatLater, id)]
  ELSE p

\* the in-memory part of removeFromLater
removeFromLater(p, id) ==
  [p EXCEPT !.repeatLater = Filter(p.repeatLater, SeqRange(p.repeatLater) \ {id})]

\* the unshown filter leaving out every card that has a record as well
getUnshownFlashcardsNeverReviewed(cards, p) ==
  Filter(cards, (SeqRange(cards) \ SeqRange(p.completed)) \ DOMAIN p.flashcardData)

getUnshownFlashcards(cards, p) ==
  Filter(cards, SeqRange(cards) \ SeqRange(p.completed))

\* addExcludedPage without the includes() test
addExcludedPageAgain(pages, url) == Append(pages, url)

\* the list addExcludedPage leaves in storage
addExcludedPage(pages, url) ==
  IF ~Includes(pages, url) THEN Append(pages, url) ELSE pages

\* the list removeExcludedPage saves
removeExcludedPage(pages, url) == Filter(pages, SeqRange(pages) \ {url})

-----------------------------------------------------------------------------
(* src/core/scheduler.js: Scheduler *)

\* the comparator with the reviewCount fallback reversed
DueCompareMostReviewedFirst(a, b) ==
  IF ~Falsy(a.progress.dueDate) /\ ~Falsy(b.progress.dueDate)
  THEN a.progress.dueDate - b.progress.dueDate
  ELSE OrZero(b.progress.reviewCount) - OrZero(a.progress.reviewCount)

\* the comparator of getDueFlashcard's sort
DueCompare(a, b) ==
  IF ~Falsy(a.progress.dueDate) /\ ~Falsy(b.progress.dueDate)
  THEN a.progress.dueDate - b.progress.dueDate
  ELSE OrZero(a.progress.reviewCount) - OrZero(b.progress.reviewCount)

\* the insertion with equal elements exchanged (a sort that is not stable)
RECURSIVE InsertSortedUnstable(_, _)
InsertSortedUnstable(x, s) ==
  IF s = <<>> THEN <<x>>
  ELSE IF DueCompare(s[Len(s)], x) >= 0
       THEN Append(InsertSortedUnstable(x, SubSeq(s, 1, Len(s) - 1)), s[Len(s)])
       ELSE Append(s, x)

\* Array.prototype.sort: stable insertion sort under the comparator
RECURSIVE InsertSorted(_, _)
InsertSorted(x, s) ==
  IF s = <<>> THEN <<x>>
  ELSE IF DueCompare(s[Len(s)], x) > 0
       THEN Append(InsertSorted(x, SubSeq(s, 1, Len(s) - 1)), s[Len(s)])
       ELSE Append(s, x)

RECURSIVE SortDue(_)
SortDue(s) ==
  IF s = <<>> THEN <<>>
  ELSE InsertSorted(s[Len(s)], SortDue(SubSeq(s, 1, Len(s) - 1)))

\* the filter of getDueFlashcard
DueFilter(fcProgress, t) == Falsy(fcProgress.dueDate) \/ isDue(fcProgress, t)

RECURSIVE DueEntries(_, _, _)
DueEntries(cards, p, t) ==
  IF cards = <<>> THEN <<>>
  ELSE LET e == [flashcard |-> cards[1], progress |-> getFlashcardProgress(p, cards[1])]
       IN  IF DueFilter(e.progress, t)
           THEN <<e>> \o DueEntries(Tail(cards), p, t)
           ELSE DueEntries(Tail(cards), p, t)

\* getDueFlashcard: the id returned, NullId for null
getDueFlashcard(cards, p, t) ==
  LET dueFlashcards == SortDue(DueEntries(cards, p, t))
  IN  IF Len(dueFlashcards) > 0 THEN dueFlashcards[1].flashcard ELSE NullId

\* getUnshownFlashcard: the ids the random index may select
getUnshownFlashcard(cards, p) ==
  LET unshownIds == getUnshownFlashcards(cards, p)
  IN  IF Len(unshownIds) = 0 THEN {NullId}
      ELSE {getFlashcardById(cards, unshownIds[i]) : i \in 1..Len(unshownIds)}

\* getLaterFlashcard: the id returned, NullId for null
getLaterFlashcard(cards, p) ==
  IF Len(p.repeatLater) = 0 THEN NullId
  ELSE getFlashcardById(cards, p.repeatLater[1])

\* getNextFlashcard with dependencies set and progress loaded: the ids it may return
getNextFlashcard(cards, p, t) ==
  LET dueFlashcard == getDueFlashcard(cards, p, t)
  IN  IF dueFlashcard # NullId THEN {dueFlashcard}
      ELSE LET unshown == getUnshownFlashcard(cards, p)
           IN  IF unshown # {NullId} THEN unshown
               ELSE {getLaterFlashcard(cards, p)}

RECURSIVE CountCards(_, _, _, _)
\* the forEach of getSchedulingStats
CountCards(cards, p, t, acc) ==
  IF cards = <<>> THEN acc
  ELSE LET fcProgress == getFlashcardProgress(p, cards[1])
           a1 == IF fcProgress.reviewCount = 0 THEN [acc EXCEPT !.new = @ + 1]
                 ELSE IF isDue(fcProgress, t) THEN [acc EXCEPT !.due = @ + 1]
                 ELSE acc
           a2 == IF Includes(p.repeatLater, cards[1])
                 THEN [a1 EXCEPT !.later = @ + 1] ELSE a1
       IN  CountCards(Tail(cards), p, t, a2)

NoStats == [due |-> 0, new |-> 0, later |-> 0, total |-> 0]

getSchedulingStats(cards, p, t) ==
  [CountCards(cards, p, t, NoStats) EXCEPT !.total = Len(cards)]

-----------------------------------------------------------------------------
(* What a call left behind *)

\* outcome: "ok" the call ran, "nodeps" it returned at the dependency guard,
\* "threw" it threw (a rejected promise for an async method); card, flag, stats:
\* what a query returned; pre: FlashcardManager.progress when a recordReview or
\* markForLater call started; saveFailed: one of its storage writes reported failure
Ret(op, id, difficulty, outcome) ==
  [op |-> op, id |-> id, difficulty |-> difficulty, outcome |-> outcome,
   card |-> NullId, flag |-> FALSE, stats |-> NoStats, saveFailed |-> FALSE,
   pre |-> NullProgress]

\* no Scheduler call since the environment last acted
NoCall == Ret("none", NullId, NullId, "ok")

NoCalc == [op |-> "none", called |-> FALSE]

\* OverlayManager as constructed on a page without overlay: this.overlay and
\* this.currentFlashcard are null, the body scrolls, no keydown listener
NoFlashcard == [isNull |-> TRUE]
NoOverlay ==
  [attached |-> FALSE, currentFlashcard |-> NoFlashcard, scrollLocked |-> FALSE,
   escapeHandler |-> FALSE, listeners |-> 0]

\* the page as loaded: nothing suspended, no overlay, no second context, no stop
\* period stored
PageInit ==
  /\ tasks = <<>>
  /\ overlay = NoOverlay
  /\ other = NullProgress
  /\ stopUntil = Null
  /\ location = "about:blank"

RECURSIVE SumReviewCounts(_, _)
SumReviewCounts(p, ids) ==
  IF ids = {} THEN 0
  ELSE LET i == CHOOSE x \in ids : TRUE
       IN  p.flashcardData[i].reviewCount + SumReviewCounts(p, ids \ {i})

Reviews(p) == IF IsNull(p) THEN 0 ELSE SumReviewCounts(p, DOMAIN p.flashcardData)

-----------------------------------------------------------------------------
(* Initial state: the singletons as constructed, nothing persisted yet *)

Init ==
  /\ deps = FALSE
  /\ flashcards = <<>>
  /\ progress = NullProgress
  /\ store = FreshProgress
  /\ config = DEFAULT_ALGORITHM_CONFIG
  /\ configLoaded = FALSE
  /\ now = 10 * Day
  /\ failures = 0
  /\ extChanged = FALSE
  /\ ret = NoCall
  /\ calc = NoCalc
  /\ savedConfig = NoSavedConfig
  /\ excluded = <<>>
  /\ PageInit

-----------------------------------------------------------------------------
(* Actions of Spec *)

\* storage.saveProgress after FlashcardManager.saveProgress: the persisted value
\* after a write of p that failed or not
Saved(old, p, failed) == IF failed THEN old ELSE p

\* Scheduler.setDependencies
SetDependencies ==
  /\ ~deps
  /\ deps' = TRUE
  /\ ret' = NoCall
  /\ UNCHANGED <<flashcards, progress, store, config, configLoaded, now,
                 failures, extChanged, calc, savedConfig, excluded, pageVars>>

\* FlashcardManager.init up to its second await: loadFlashcards (the fetch of the
\* packaged file succeeds and returns the same catalog every time)
LoadCatalog(catalogs) ==
  /\ flashcards = <<>>
  /\ \E c \in catalogs : flashcards' = c
  /\ ret' = NoCall
  /\ UNCHANGED <<deps, progress, store, config, configLoaded, now, failures,
                 extChanged, calc, savedConfig, excluded, pageVars>>

LoadFlashcards == LoadCatalog(Catalogs)

\* FlashcardManager.init from its second await on: loadProgress
LoadProgress ==
  /\ flashcards # <<>>
  /\ progress' = store
  /\ extChanged' = FALSE
  /\ ret' = NoCall
  /\ UNCHANGED <<deps, flashcards, store, config, configLoaded, now, failures, calc,
                 savedConfig, excluded, pageVars>>

\* a reset that empties the two queues and keeps the records
resetProgressKeepsData(p) ==
  IF IsNull(p) THEN FreshProgress
  ELSE [p EXCEPT !.completed = <<>>, !.repeatLater = <<>>]

\* the in-memory part of FlashcardManager.resetProgress
resetProgress(p) == FreshProgress

\* FlashcardManager.resetProgress, awaited to its end
ResetProgress ==
  /\ progress' = resetProgress(progress)
  /\ store' = Saved(store, resetProgress(progress), FALSE)
  /\ ret' = [Ret("resetProgress", NullId, NullId, "ok") EXCEPT !.pre = progress]
  /\ UNCHANGED <<deps, flashcards, config, configLoaded, now, failures,
                 extChanged, calc, savedConfig, excluded, pageVars>>

\* time passes
Tick ==
  /\ now < (10 + MaxDays) * Day
  /\ now' = now + Day
  /\ ret' = NoCall
  /\ UNCHANGED <<deps, flashcards, progress, store, config, configLoaded,
                 failures, extChanged, calc, savedConfig, excluded, pageVars>>

\* the popup's (or the service worker's) reset: writes the empty progress to storage
ExternalReset ==
  /\ store # FreshProgress
  /\ store' = FreshProgress
  /\ extChanged' = TRUE
  /\ ret' = NoCall
  /\ UNCHANGED <<deps, flashcards, progress, config, configLoaded, now,
                 failures, calc, savedConfig, excluded, pageVars>>

\* Scheduler.getNextFlashcard
GetNextFlashcard ==
  /\ \/ /\ ~deps
        /\ ret' = Ret("getNextFlashcard", NullId, NullId, "nodeps")
     \/ /\ deps /\ IsNull(progress)
        /\ ret' = Ret("getNextFlashcard", NullId, NullId, "threw")
     \/ /\ deps /\ ~IsNull(progress)
        /\ \E c \in getNextFlashcard(flashcards, progress, now) :
             ret' = [Ret("getNextFlashcard", NullId, NullId, "ok") EXCEPT !.card = c]
  /\ UNCHANGED <<deps, flashcards, progress, store, config, configLoaded, now,
                 failures, extChanged, calc, savedConfig, excluded, pageVars>>

\* Scheduler.hasFlashcardsAvailable
HasFlashcardsAvailable ==
  /\ \/ /\ ~deps
        /\ ret' = Ret("hasFlashcardsAvailable", NullId, NullId, "nodeps")
     \/ /\ deps /\ IsNull(progress)
        /\ ret' = Ret("hasFlashcardsAvailable", NullId, NullId, "threw")
     \/ /\ deps /\ ~IsNull(progress)
        /\ \E c \in getNextFlashcard(flashcards, progress, now) :
             ret' = [Ret("hasFlashcardsAvailable", NullId, NullId, "ok")
                       EXCEPT !.flag = (c # NullId)]
  /\ UNCHANGED <<deps, flashcards, progress, store, config, configLoaded, now,
                 failures, extChanged, calc, savedConfig, excluded, pageVars>>

\* Scheduler.getSchedulingStats
GetSchedulingStats ==
  /\ \/ /\ ~deps
        /\ ret' = Ret("getSchedulingStats", NullId, NullId, "nodeps")
     \/ /\ deps /\ IsNull(progress) /\ flashcards # <<>>
        /\ ret' = Ret("getSchedulingStats", NullId, NullId, "threw")
     \/ /\ deps /\ IsNull(progress) /\ flashcards = <<>>
        /\ ret' = Ret("getSchedulingStats", NullId, NullId, "ok")
     \/ /\ deps /\ ~IsNull(progress)
        /\ ret' = [Ret("getSchedulingStats", NullId, NullId, "ok")
                     EXCEPT !.stats = getSchedulingStats(flashcards, progress, now)]
  /\ UNCHANGED <<deps, flashcards, progress, store, config, configLoaded, now,
                 failures, extChanged, calc, savedConfig, excluded, pageVars>>

\* the condition with Hard added to it
MarksDoneAnyDifficulty(difficulty) == difficulty \in REVIEW_DIFFICULTY

\* the condition under which recordReview marks the card as done
MarksDone(difficulty) == difficulty = GOOD \/ difficulty = EASY

\* Scheduler.recordReview(flashcardId, difficulty), awaited to its end; each of
\* its storage writes reports failure or not, as drawn from fails
RecordReviewRun(flashcardId, difficulty, fails) ==
  \/ /\ ~deps
     /\ ret' = Ret("recordReview", flashcardId, difficulty, "nodeps")
     /\ UNCHANGED <<deps, flashcards, progress, store, config, configLoaded, now,
                    failures, extChanged, calc, savedConfig, excluded,
                    pageVars>>
  \/ /\ deps /\ IsNull(progress)
     /\ ret' = Ret("recordReview", flashcardId, difficulty, "threw")
     /\ UNCHANGED <<deps, flashcards, progress, store, config, configLoaded, now,
                    failures, extChanged, calc, savedConfig, excluded,
                    pageVars>>
  \/ /\ deps /\ ~IsNull(progress)
     /\ Reviews(progress) < MaxReviews
     /\ \E k \in RandSet, f1, f2, f3 \in fails :
          LET cfg == EffectiveConfig(config, configLoaded)
              currentProgress == getFlashcardProgress(progress, flashcardId)
              updatedProgress == calculateReview(currentProgress, difficulty, cfg, now, k)
              done == MarksDone(difficulty)
              p1 == updateFlashcardProgress(progress, flashcardId, updatedProgress)
              p2 == IF done THEN markAsDone(p1, flashcardId) ELSE p1
              p3 == IF done THEN removeFromLater(p2, flashcardId) ELSE p2
              s1 == Saved(store, p1, f1)
              s2 == IF p2 # p1 THEN Saved(s1, p2, f2) ELSE s1
              s3 == IF done THEN Saved(s2, p3, f3) ELSE s2
              nf == (IF f1 THEN 1 ELSE 0) + (IF f2 THEN 1 ELSE 0) + (IF f3 THEN 1 ELSE 0)
          IN  /\ (p2 = p1) => ~f2
              /\ ~done => ~f3
              /\ failures + nf <= MaxFailures
              \* the random source is read only when the load balancer runs
              /\ (currentProgress.reviewCount = 0 /\ difficulty = HARD) => k = 0
              /\ progress' = p3
              /\ store' = s3
              /\ config' = cfg
              /\ failures' = failures + nf
              /\ ret' = [Ret("recordReview", flashcardId, difficulty, "ok")
                           EXCEPT !.saveFailed = (nf > 0), !.pre = progress]
     /\ UNCHANGED <<deps, flashcards, configLoaded, now, extChanged, calc,
                 savedConfig, excluded, pageVars>>

\* Scheduler.markForLater(flashcardId), awaited to its end; its storage write
\* reports failure or not, as drawn from fails
MarkForLaterRun(flashcardId, fails) ==
  \/ /\ ~deps
     /\ ret' = Ret("markForLater", flashcardId, NullId, "nodeps")
     /\ UNCHANGED <<deps, flashcards, progress, store, config, configLoaded, now,
                    failures, extChanged, calc, savedConfig, excluded,
                    pageVars>>
  \/ /\ deps
     /\ \E f \in fails :
          LET p0 == IF IsNull(progress) THEN store ELSE progress
              p1 == markForLaterMem(p0, flashcardId)
          IN  /\ Len(p1.repeatLater) <= MaxLater
              /\ (p1 = p0) => ~f
              /\ failures + (IF f THEN 1 ELSE 0) <= MaxFailures
              /\ progress' = p1
              /\ store' = IF p1 # p0 THEN Saved(store, p1, f) ELSE store
              /\ failures' = failures + (IF f THEN 1 ELSE 0)
              /\ extChanged' = IF IsNull(progress) THEN FALSE ELSE extChanged
              /\ ret' = [Ret("markForLater", flashcardId, NullId, "ok")
                           EXCEPT !.saveFailed = f, !.pre = progress]
     /\ UNCHANGED <<deps, flashcards, config, configLoaded, now, calc,
                 savedConfig, excluded, pageVars>>

\* with chrome.storage writing reliably
RecordReview(flashcardId, difficulty) == RecordReviewRun(flashcardId, difficulty, {FALSE})
MarkForLater(flashcardId) == MarkForLaterRun(flashcardId, {FALSE})

\* with chrome.storage.local.set reporting chrome.runtime.lastError on some writes
RecordReviewUnreliable(flashcardId, difficulty) ==
  RecordReviewRun(flashcardId, difficulty, BOOLEAN)
MarkForLaterUnreliable(flashcardId) == MarkForLaterRun(flashcardId, BOOLEAN)

Next ==
  \/ SetDependencies
  \/ LoadFlashcards
  \/ LoadProgress
  \/ ResetProgress
  \/ Tick
  \/ GetNextFlashcard
  \/ HasFlashcardsAvailable
  \/ GetSchedulingStats
  \/ \E id \in Ids, d \in REVIEW_DIFFICULTY : RecordReview(id, d)
  \/ \E id \in Ids : MarkForLater(id)

Spec == Init /\ [][Next]_vars

-----------------------------------------------------------------------------
(* SpecAlg: the algorithm alone *)

\* configurations algorithm_config may hold (loadConfig merges it over the defaults)
AlgConfigs ==
  {[DEFAULT_ALGORITHM_CONFIG EXCEPT !.enableLoadBalancer = lb,
                                    !.maxIntervalDays = m,
                                    !.intervalChangeHard = h,
                                    !.baseEase = b[1], !.easyBonus = b[2]] :
     lb \in BOOLEAN, m \in {36525, 2}, h \in {50, 100},
     b \in {<<250, 130>>, <<300, 150>>}}

\* records handed to calculateReview: the default record of a new card (ease
\* null), an object without an ease property, records as the tests build them
\* and as earlier reviews store them
AlgInputs ==
  {[reviewCount |-> rc, ease |-> e, interval |-> i, lastReview |-> Null] :
     rc \in {0, 1}, e \in {Null, Undefined, 0, 130, 250}, i \in {0, 1, 50, 100, 1000}}

\* records handed to isDue: dueDate null, absent, 0, before, at and after now
DueInputs ==
  {[dueDate |-> d] : d \in {Null, Undefined, 0, 10 * Day - 1, 10 * Day, 10 * Day + 1}}

\* the algorithm after loadConfig read a saved configuration
InitAlg ==
  /\ deps = FALSE
  /\ flashcards = <<>>
  /\ progress = NullProgress
  /\ store = FreshProgress
  /\ config \in AlgConfigs
  /\ configLoaded = TRUE
  /\ now = 10 * Day
  /\ failures = 0
  /\ extChanged = FALSE
  /\ ret = NoCall
  /\ calc \in [op : {"calculateReview"}, called : {FALSE}, input : AlgInputs,
               difficulty : REVIEW_DIFFICULTY, k : RandGrid]
             \cup [op : {"isDue"}, called : {FALSE}, input : DueInputs]
  /\ savedConfig = NoSavedConfig
  /\ excluded = <<>>
  /\ PageInit

\* algorithm.calculateReview(calc.input, calc.difficulty) with Math.random() = calc.k / 10
CalculateReview ==
  /\ calc.op = "calculateReview" /\ ~calc.called
  /\ LET cfg == EffectiveConfig(config, configLoaded)
     IN  /\ config' = cfg
         /\ calc' = [op |-> "calculateReview", called |-> TRUE, input |-> calc.input,
                     difficulty |-> calc.difficulty, k |-> calc.k, cfg |-> cfg,
                     out |-> calculateReview(calc.input, calc.difficulty, cfg, now,
                                             calc.k)]
  /\ UNCHANGED <<deps, flashcards, progress, store, configLoaded, now, failures,
                 extChanged, ret, savedConfig, excluded, pageVars>>

\* algorithm.isDue(calc.input)
IsDue ==
  /\ calc.op = "isDue" /\ ~calc.called
  /\ calc' = [op |-> "isDue", called |-> TRUE, input |-> calc.input,
              out |-> isDue(calc.input, now)]
  /\ UNCHANGED <<deps, flashcards, progress, store, config, configLoaded, now,
                 failures, extChanged, ret, savedConfig, excluded, pageVars>>

NextAlg == CalculateReview \/ IsDue

SpecAlg == InitAlg /\ [][NextAlg]_vars

-----------------------------------------------------------------------------
\* the same context with unreliable storage writes and the popup resetting the
\* persisted progress, for the one-card and the three-card catalog
LoadFlashcardsFaults == LoadCatalog(Catalogs \ {<<"fc-1", "fc-2">>})

NextFaults ==
  \/ SetDependencies
  \/ LoadFlashcardsFaults
  \/ LoadProgress
  \/ ExternalReset
  \/ GetNextFlashcard
  \/ GetSchedulingStats
  \/ \E id \in Ids, d \in REVIEW_DIFFICULTY : RecordReviewUnreliable(id, d)
  \/ \E id \in Ids : MarkForLaterUnreliable(id)

SpecFaults == Init /\ [][NextFaults]_vars

-----------------------------------------------------------------------------
(* SpecConfig: the configuration of the algorithm *)

MaxUpdates == 2

\* configurations an earlier session may have saved under algorithm_config
SavedConfigs ==
  {NoSavedConfig,
   [DEFAULT_ALGORITHM_CONFIG EXCEPT !.easyBonus = 150],
   [DEFAULT_ALGORITHM_CONFIG EXCEPT !.baseEase = 100, !.maxLinkContribution = 100]}

\* partial configurations handed to updateConfig
ConfigUpdates ==
  {[easyBonus |-> 150],
   [baseEase |-> 300],
   [enableLoadBalancer |-> FALSE, maxIntervalDays |-> 2],
   [maxLinkContribution |-> 0],
   [baseEase |-> 100, maxLinkContribution |-> 25]}

\* options handed to calculateInitialEase: no linkedEase, null, 0, values whose
\* contribution ends below and above the floor
EaseOptions ==
  {[linkedEase |-> e] : e \in {Undefined, Null, 0, 5, 100, 130, 255, 400}}

\* the algorithm as constructed, over what storage holds, and the call that will
\* be made
InitConfig ==
  /\ deps = FALSE
  /\ flashcards = <<>>
  /\ progress = NullProgress
  /\ store = FreshProgress
  /\ config = DEFAULT_ALGORITHM_CONFIG
  /\ configLoaded = FALSE
  /\ now = 10 * Day
  /\ failures = 0
  /\ extChanged = FALSE
  /\ ret = NoCall
  /\ calc \in [op : {"calculateReview"}, called : {FALSE},
               input : {[reviewCount |-> 1, ease |-> 250, interval |-> 100,
                         lastReview |-> Null]},
               difficulty : REVIEW_DIFFICULTY, k : RandSet]
             \cup [op : {"calculateInitialEase"}, called : {FALSE},
                   options : EaseOptions]
  /\ savedConfig \in SavedConfigs
  /\ excluded = <<>>
  /\ PageInit

\* updateConfig calls so far
Updates == IF ret.op = "updateConfig" THEN ret.n ELSE 0

\* algorithm.loadConfig() (ensureConfigLoaded) while the configuration is not loaded
LoadConfig ==
  /\ ~configLoaded
  /\ config' = loadConfig(savedConfig)
  /\ configLoaded' = TRUE
  /\ UNCHANGED <<deps, flashcards, progress, store, now, failures, extChanged,
                 ret, calc, savedConfig, excluded, pageVars>>

\* algorithm.updateConfig(newConfig), awaited; before: this.config when it started
UpdateConfig(newConfig) ==
  /\ ~calc.called
  /\ Updates < MaxUpdates
  /\ config' = updateConfig(config, newConfig)
  /\ savedConfig' = updateConfig(config, newConfig)
  /\ ret' = [op |-> "updateConfig", outcome |-> "ok", before |-> config,
             partial |-> newConfig, loaded |-> configLoaded, n |-> Updates + 1]
  /\ UNCHANGED <<deps, flashcards, progress, store, configLoaded, now, failures,
                 extChanged, calc, excluded, pageVars>>

\* algorithm.calculateInitialEase(calc.options)
CalculateInitialEase ==
  /\ calc.op = "calculateInitialEase" /\ ~calc.called
  /\ calc' = [op |-> "calculateInitialEase", called |-> TRUE,
              options |-> calc.options, cfg |-> config,
              out |-> calculateInitialEase(calc.options, config)]
  /\ UNCHANGED <<deps, flashcards, progress, store, config, configLoaded, now,
                 failures, extChanged, ret, savedConfig, excluded, pageVars>>

NextConfig ==
  \/ LoadConfig
  \/ \E newConfig \in ConfigUpdates : UpdateConfig(newConfig)
  \/ CalculateReview
  \/ CalculateInitialEase

SpecConfig == InitConfig /\ [][NextConfig]_vars

-----------------------------------------------------------------------------
(* SpecPages: the excluded pages in storage, every call awaited, writes succeed *)

Urls == {"a.example", "b.example", "c.example", "d.example"}

\* storage.addExcludedPage(url)
AddExcludedPage(url) ==
  /\ excluded' = addExcludedPage(excluded, url)
  /\ ret' = [Ret("addExcludedPage", url, NullId, "ok") EXCEPT !.flag = TRUE]
  /\ UNCHANGED <<deps, flashcards, progress, store, config, configLoaded, now,
                 failures, extChanged, calc, savedConfig, pageVars>>

\* storage.removeExcludedPage(url)
RemoveExcludedPage(url) ==
  /\ excluded' = removeExcludedPage(excluded, url)
  /\ ret' = [Ret("removeExcludedPage", url, NullId, "ok") EXCEPT !.flag = TRUE]
  /\ UNCHANGED <<deps, flashcards, progress, store, config, configLoaded, now,
                 failures, extChanged, calc, savedConfig, pageVars>>

NextPages ==
  \/ \E url \in Urls : AddExcludedPage(url)
  \/ \E url \in Urls : RemoveExcludedPage(url)

SpecPages == Init /\ [][NextPages]_vars

-----------------------------------------------------------------------------
(* SpecOverlay and SpecReview: one page with its overlay; async calls suspend at
   their storage awaits and other handlers run in between *)

MaxTasks == 2

\* keydown listeners left registered at a time
MaxListeners == 2

\* minutes the stop_duration setting may hold (half a day, one day)
StopDurations == {720, 1440}

\* stopDuration * 60 * 1000 ms on the clock's grid
Minutes(m) == (m * Day) \div 1440

RemoveAt(s, i) == SubSeq(s, 1, i - 1) \o SubSeq(s, i + 1, Len(s))

\* Flashcards.init() suspended before it calls showFlashcardOnLoad
InitTask == [op |-> "init", pc |-> "shouldShow"]

\* overlay.isVisible()
isVisible(o) == o.attached

\* overlay.show(card) up to its first await: the overlay is attached, the body scrolls
showBegin(o, card) ==
  [o EXCEPT !.attached = TRUE, !.currentFlashcard = card, !.scrollLocked = FALSE]

\* overlay.show after its awaits: the scroll lock and addEscapeHandler
showEnd(o) ==
  [o EXCEPT !.scrollLocked = TRUE, !.escapeHandler = TRUE, !.listeners = @ + 1]

\* overlay.hide(), removeEscapeHandler included
hide(o) ==
  [attached |-> FALSE, currentFlashcard |-> NoFlashcard, scrollLocked |-> FALSE,
   escapeHandler |-> FALSE,
   listeners |-> IF o.escapeHandler THEN o.listeners - 1 ELSE o.listeners]

\* what getNextFlashcard hands to overlay.show for catalog item id
CardData(id) == [flashcard |-> id, progress |-> getFlashcardProgress(progress, id)]

\* the page after Flashcards.init() loaded the configuration, the catalog and the
\* progress and injected the control panel, with the calls in pending suspended
PageLoaded(pending) ==
  /\ deps = TRUE
  /\ flashcards = <<"fc-1", "fc-2">>
  /\ progress = FreshProgress
  /\ store = FreshProgress
  /\ config = DEFAULT_ALGORITHM_CONFIG
  /\ configLoaded = TRUE
  /\ now = 10 * Day
  /\ failures = 0
  /\ extChanged = FALSE
  /\ ret = NoCall
  /\ calc = NoCalc
  /\ savedConfig = NoSavedConfig
  /\ excluded = <<>>
  /\ tasks = pending
  /\ overlay = NoOverlay
  /\ other = NullProgress
  /\ stopUntil = Null
  /\ location = "about:blank"

\* init is about to call showFlashcardOnLoad
InitOverlay == PageLoaded(<<InitTask>>)

\* showFlashcardOnLoad has returned without a card to show
InitReview == PageLoaded(<<>>)

\* the stop test without the comparison with the clock
StillStoppedNever(stop, t) == FALSE

\* showFlashcardOnLoad's test: stopUntil && Date.now() < stopUntil
StillStopped(stop, t) == ~Falsy(stop) /\ t < stop

\* Flashcards.showFlashcardOnLoad(), called by init once the page has loaded
ShowFlashcardOnLoad ==
  \E i \in 1..Len(tasks) :
    /\ tasks[i].op = "init"
    /\ overlay.listeners < MaxListeners
    /\ LET rest == RemoveAt(tasks, i)
           stopped == StillStopped(stopUntil, now)
           r == [op |-> "showFlashcardOnLoad", outcome |-> "ok",
                 visible |-> isVisible(overlay), stopBefore |-> stopUntil,
                 settled |-> \A j \in 1..Len(tasks) : tasks[j].op # "handleLater",
                 at |-> now, stopAfter |-> stopUntil, available |-> FALSE,
                 shown |-> FALSE]
       IN  \/ /\ isVisible(overlay)
              /\ tasks' = rest
              /\ ret' = r
              /\ UNCHANGED <<overlay, stopUntil>>
           \/ /\ ~isVisible(overlay) /\ stopped
              /\ tasks' = rest
              /\ ret' = r
              /\ UNCHANGED <<overlay, stopUntil>>
           \/ /\ ~isVisible(overlay) /\ ~stopped
              /\ stopUntil' = Null
              /\ \E c \in getNextFlashcard(flashcards, progress, now) :
                   IF c # NullId
                   THEN /\ overlay' = showBegin(overlay, CardData(c))
                        /\ tasks' = Append(rest, [op |-> "show", pc |-> "stopText"])
                        /\ ret' = [r EXCEPT !.stopAfter = Null, !.available = TRUE,
                                            !.shown = TRUE]
                   ELSE /\ tasks' = rest
                        /\ ret' = [r EXCEPT !.stopAfter = Null]
                        /\ UNCHANGED overlay
    /\ UNCHANGED <<deps, flashcards, progress, store, config, configLoaded, now,
                   failures, extChanged, calc, savedConfig, excluded, other,
                   location>>

\* the control panel's Show button (controlPanel.showFlashcard, Flashcards.showRandom)
ShowFlashcard ==
  /\ ~isVisible(overlay)
  /\ Len(tasks) < MaxTasks
  /\ overlay.listeners < MaxListeners
  /\ \E c \in getNextFlashcard(flashcards, progress, now) :
       /\ c # NullId
       /\ overlay' = showBegin(overlay, CardData(c))
  /\ tasks' = Append(tasks, [op |-> "show", pc |-> "stopText"])
  /\ ret' = NoCall
  /\ UNCHANGED <<deps, flashcards, progress, store, config, configLoaded, now,
                 failures, extChanged, calc, savedConfig, excluded, other,
                 stopUntil, location>>

\* overlay.show resumes after an await: after updateStopButtonText it goes through
\* updateTimeEstimates, which waits for loadConfig only while the configuration
\* is not loaded, and then locks the scroll and adds the Escape handler
ShowResume ==
  \E i \in 1..Len(tasks) :
    /\ tasks[i].op = "show"
    /\ LET rest == RemoveAt(tasks, i)
           waits == /\ tasks[i].pc = "stopText"
                    /\ overlay.attached /\ ~IsNull(overlay.currentFlashcard)
                    /\ ~configLoaded
       IN  IF waits
           THEN /\ tasks' = Append(rest, [op |-> "show", pc |-> "estimates"])
                /\ UNCHANGED <<overlay, config, configLoaded>>
           ELSE /\ tasks' = rest
                /\ overlay' = showEnd(overlay)
                /\ config' = IF configLoaded THEN config ELSE loadConfig(savedConfig)
                /\ configLoaded' = TRUE
    /\ ret' = NoCall
    /\ UNCHANGED <<deps, flashcards, progress, store, now, failures, extChanged,
                   calc, savedConfig, excluded, other, stopUntil, location>>

\* the Close button of the attached overlay
Close ==
  /\ overlay.attached
  /\ overlay' = hide(overlay)
  /\ ret' = NoCall
  /\ UNCHANGED <<deps, flashcards, progress, store, config, configLoaded, now,
                 failures, extChanged, calc, savedConfig, excluded, tasks, other,
                 stopUntil, location>>

\* the Escape key: a registered handler hides the overlay when there is one
Escape ==
  /\ overlay.listeners > 0 /\ overlay.attached
  /\ overlay' = hide(overlay)
  /\ ret' = NoCall
  /\ UNCHANGED <<deps, flashcards, progress, store, config, configLoaded, now,
                 failures, extChanged, calc, savedConfig, excluded, tasks, other,
                 stopUntil, location>>

\* a click on Hard, Good or Easy: handleReview runs recordReview up to the first
\* await (the write of updateFlashcardProgress)
HandleReview(difficulty) ==
  /\ overlay.attached /\ ~IsNull(overlay.currentFlashcard)
  /\ Len(tasks) < MaxTasks
  /\ Reviews(progress) < MaxReviews
  /\ \E k \in RandSet :
       LET flashcardId == overlay.currentFlashcard.flashcard
           cfg == EffectiveConfig(config, configLoaded)
           currentProgress == getFlashcardProgress(progress, flashcardId)
           updatedProgress == calculateReview(currentProgress, difficulty, cfg, now, k)
           p1 == updateFlashcardProgress(progress, flashcardId, updatedProgress)
       IN  /\ (currentProgress.reviewCount = 0 /\ difficulty = HARD) => k = 0
           /\ progress' = p1
           /\ store' = Saved(store, p1, FALSE)
           /\ config' = cfg
           /\ tasks' = Append(tasks, [op |-> "recordReview", pc |-> "afterUpdate",
                                      id |-> flashcardId, difficulty |-> difficulty,
                                      shown |-> overlay.currentFlashcard.progress])
  /\ ret' = NoCall
  /\ UNCHANGED <<deps, flashcards, configLoaded, now, failures, extChanged, calc,
                 savedConfig, excluded, overlay, other, stopUntil, location>>

\* recordReview resumes after the write it waited for; when it has returned,
\* handleReview hides the overlay
ReviewResume ==
  \E i \in 1..Len(tasks) :
    /\ tasks[i].op = "recordReview"
    /\ LET t == tasks[i]
           rest == RemoveAt(tasks, i)
           marks == t.pc = "afterUpdate" /\ MarksDone(t.difficulty)
                    /\ ~Includes(progress.completed, t.id)
           removes == \/ t.pc = "afterDone"
                      \/ t.pc = "afterUpdate" /\ MarksDone(t.difficulty)
                         /\ Includes(progress.completed, t.id)
       IN  IF marks
           THEN /\ progress' = markAsDone(progress, t.id)
                /\ store' = Saved(store, markAsDone(progress, t.id), FALSE)
                /\ tasks' = Append(rest, [t EXCEPT !.pc = "afterDone"])
                /\ ret' = NoCall
                /\ UNCHANGED overlay
           ELSE IF removes
           THEN /\ progress' = removeFromLater(progress, t.id)
                /\ store' = Saved(store, removeFromLater(progress, t.id), FALSE)
                /\ tasks' = Append(rest, [t EXCEPT !.pc = "afterRemove"])
                /\ ret' = NoCall
                /\ UNCHANGED overlay
           ELSE /\ overlay' = hide(overlay)
                /\ tasks' = rest
                /\ ret' = [op |-> "handleReview", outcome |-> "ok", id |-> t.id,
                           difficulty |-> t.difficulty, shown |-> t.shown]
                /\ UNCHANGED <<progress, store>>
    /\ UNCHANGED <<deps, flashcards, config, configLoaded, now, failures,
                   extChanged, calc, savedConfig, excluded, other, stopUntil,
                   location>>

\* a click on the stop button: handleLater waits for storage.getStopDuration()
HandleLater ==
  /\ overlay.attached
  /\ Len(tasks) < MaxTasks
  /\ tasks' = Append(tasks, [op |-> "handleLater", pc |-> "getStopDuration"])
  /\ ret' = NoCall
  /\ UNCHANGED <<deps, flashcards, progress, store, config, configLoaded, now,
                 failures, extChanged, calc, savedConfig, excluded, overlay, other,
                 stopUntil, location>>

\* handleLater resumes: it stores stopUntil and waits for the write, then hides
LaterResume ==
  \E i \in 1..Len(tasks) :
    /\ tasks[i].op = "handleLater"
    /\ LET rest == RemoveAt(tasks, i)
       IN  IF tasks[i].pc = "getStopDuration"
           THEN /\ \E stopDuration \in StopDurations :
                     stopUntil' = now + Minutes(stopDuration)
                /\ tasks' = Append(rest, [op |-> "handleLater", pc |-> "setStopUntil"])
                /\ ret' = NoCall
                /\ UNCHANGED overlay
           ELSE /\ overlay' = hide(overlay)
                /\ tasks' = rest
                /\ ret' = [op |-> "handleLater", outcome |-> "ok"]
                /\ UNCHANGED stopUntil
    /\ UNCHANGED <<deps, flashcards, progress, store, config, configLoaded, now,
                   failures, extChanged, calc, savedConfig, excluded, other,
                   location>>

\* the tab loads the next page: a new content script initialises from storage
\* and init waits to call showFlashcardOnLoad
Reload ==
  /\ progress' = store
  /\ tasks' = <<InitTask>>
  /\ overlay' = NoOverlay
  /\ ret' = NoCall
  /\ UNCHANGED <<deps, flashcards, store, config, configLoaded, now, failures,
                 extChanged, calc, savedConfig, excluded, other, stopUntil,
                 location>>

\* the overlay, the stop period and page loads
NextOverlay ==
  \/ ShowFlashcardOnLoad
  \/ ShowFlashcard
  \/ ShowResume
  \/ Close
  \/ Escape
  \/ HandleLater
  \/ LaterResume
  \/ Reload
  \/ Tick

SpecOverlay == InitOverlay /\ [][NextOverlay]_vars

\* reviews made from the overlay, and resetProgress
NextReview ==
  \/ ShowFlashcard
  \/ ShowResume
  \/ Close
  \/ \E d \in REVIEW_DIFFICULTY : HandleReview(d)
  \/ ReviewResume
  \/ ResetProgress

SpecReview == InitReview /\ [][NextReview]_vars

-----------------------------------------------------------------------------
(* SpecTabs: two contexts (tabs) over one chrome.storage; each keeps its own
   FlashcardManager.progress, tab 1 in progress and tab 2 in other *)

Tabs == {1, 2}

\* FlashcardManager.progress of the context
TabProgress(tab) == IF tab = 1 THEN progress ELSE other

\* the reviews each context has recorded on each card
NoTabReviews == [tab \in Tabs |-> [id \in {"fc-1", "fc-2"} |-> 0]]

\* both content scripts have loaded the catalog, neither the progress
InitTabs ==
  /\ deps = TRUE
  /\ flashcards = <<"fc-1", "fc-2">>
  /\ progress = NullProgress
  /\ store = FreshProgress
  /\ config = DEFAULT_ALGORITHM_CONFIG
  /\ configLoaded = TRUE
  /\ now = 10 * Day
  /\ failures = 0
  /\ extChanged = FALSE
  /\ ret = [op |-> "none", tab |-> 0, id |-> NullId, recorded |-> NoTabReviews]
  /\ calc = NoCalc
  /\ savedConfig = NoSavedConfig
  /\ excluded = <<>>
  /\ PageInit

\* FlashcardManager.init in one context: loadProgress reads the storage
LoadProgressIn(tab) ==
  /\ IsNull(TabProgress(tab))
  /\ IF tab = 1
     THEN progress' = store /\ UNCHANGED other
     ELSE other' = store /\ UNCHANGED progress
  /\ UNCHANGED <<deps, flashcards, store, config, configLoaded, now, failures,
                 extChanged, ret, calc, savedConfig, excluded, tasks, overlay,
                 stopUntil, location>>

\* Scheduler.recordReview(flashcardId, difficulty) in one context, awaited to its
\* end: every saveProgress writes the context's whole progress
RecordReviewIn(tab, flashcardId, difficulty) ==
  /\ ~IsNull(TabProgress(tab))
  /\ Reviews(TabProgress(tab)) < MaxReviews
  /\ \E k \in RandSet :
       LET p0 == TabProgress(tab)
           currentProgress == getFlashcardProgress(p0, flashcardId)
           updatedProgress == calculateReview(currentProgress, difficulty, config, now, k)
           done == MarksDone(difficulty)
           p1 == updateFlashcardProgress(p0, flashcardId, updatedProgress)
           p2 == IF done THEN markAsDone(p1, flashcardId) ELSE p1
           p3 == IF done THEN removeFromLater(p2, flashcardId) ELSE p2
       IN  /\ (currentProgress.reviewCount = 0 /\ difficulty = HARD) => k = 0
           /\ IF tab = 1
              THEN progress' = p3 /\ UNCHANGED other
              ELSE other' = p3 /\ UNCHANGED progress
           /\ store' = Saved(store, p3, FALSE)
  /\ ret' = [op |-> "recordReview", tab |-> tab, id |-> flashcardId,
             recorded |-> [ret.recorded EXCEPT ![tab][flashcardId] = @ + 1]]
  /\ UNCHANGED <<deps, flashcards, config, configLoaded, now, failures,
                 extChanged, calc, savedConfig, excluded, tasks, overlay,
                 stopUntil, location>>

NextTabs ==
  \/ \E tab \in Tabs : LoadProgressIn(tab)
  \/ \E tab \in Tabs, id \in {"fc-1", "fc-2"}, d \in REVIEW_DIFFICULTY :
       RecordReviewIn(tab, id, d)

SpecTabs == InitTabs /\ [][NextTabs]_vars

-----------------------------------------------------------------------------
(* src/utils/url-matcher.js: URLMatcher. A string is the sequence of its
   characters; location holds window.location.href *)

Https == <<"h", "t", "t", "p", "s", ":", "/", "/">>
WildcardSuffix == <<"/", "*">>

\* the pages of the model: https://ex.com/, https://ex.com/a, https://ex.com/a/
\* and https://o.org/
RootPage == Https \o <<"e", "x", ".", "c", "o", "m", "/">>
PageA == RootPage \o <<"a">>
PageASlash == PageA \o <<"/">>
OtherPage == Https \o <<"o", ".", "o", "r", "g", "/">>
Pages == {RootPage, PageA, PageASlash, OtherPage}

\* String.prototype.startsWith, endsWith, indexOf (0: not found), includes
StartsWith(s, p) == Len(s) >= Len(p) /\ SubSeq(s, 1, Len(p)) = p
EndsWith(s, p) == Len(s) >= Len(p) /\ SubSeq(s, Len(s) - Len(p) + 1, Len(s)) = p
IndexOf(s, p) ==
  LET found == {i \in 1..(Len(s) - Len(p) + 1) : SubSeq(s, i, i + Len(p) - 1) = p}
  IN  IF found = {} THEN 0 ELSE CHOOSE i \in found : \A j \in found : i <= j
StrIncludes(s, p) == IndexOf(s, p) # 0

\* String.prototype.trim for the blank
RECURSIVE Trim(_)
Trim(s) ==
  IF s # <<>> /\ Head(s) = " " THEN Trim(Tail(s))
  ELSE IF s # <<>> /\ s[Len(s)] = " " THEN Trim(SubSeq(s, 1, Len(s) - 1))
  ELSE s

\* the first index of s holding a character of cs, Len(s) + 1 when there is none
FirstOf(s, cs) ==
  LET found == {i \in 1..Len(s) : s[i] \in cs}
  IN  IF found = {} THEN Len(s) + 1 ELSE CHOOSE i \in found : \A j \in found : i <= j

\* new URL(s) for an https URL without port or credentials, in lower case and
\* without dot segments; ok is FALSE where the constructor throws
URL(s) ==
  IF ~StartsWith(s, Https) \/ Len(s) = Len(Https) \/ s[Len(Https) + 1] \in {"/", "?", "#"}
  THEN [ok |-> FALSE]
  ELSE LET rest == SubSeq(s, Len(Https) + 1, Len(s))
           hostEnd == FirstOf(rest, {"/", "?", "#"})
           hostname == SubSeq(rest, 1, hostEnd - 1)
           after == SubSeq(rest, hostEnd, Len(rest))
           path == SubSeq(after, 1, FirstOf(after, {"?", "#"}) - 1)
       IN  [ok |-> TRUE,
            protocol |-> <<"h", "t", "t", "p", "s", ":">>,
            host |-> hostname,
            hostname |-> hostname,
            pathname |-> IF path = <<>> THEN <<"/">> ELSE path,
            origin |-> Https \o hostname]

\* URLMatcher.normalizeURL
normalizeURL(url) ==
  LET urlObj == URL(url)
      pathname == IF urlObj.pathname[Len(urlObj.pathname)] = "/"
                  THEN SubSeq(urlObj.pathname, 1, Len(urlObj.pathname) - 1)
                  ELSE urlObj.pathname
  IN  IF urlObj.ok
      THEN urlObj.protocol \o <<"/", "/">> \o urlObj.host \o pathname
      ELSE url

\* pattern.split('/*') destructured into [base, pathPattern]
SplitWildcard(pattern) ==
  LET i == IndexOf(pattern, WildcardSuffix)
      tail == SubSeq(pattern, i + 2, Len(pattern))
      j == IndexOf(tail, WildcardSuffix)
  IN  [base |-> SubSeq(pattern, 1, i - 1),
       pathPattern |-> IF j = 0 THEN tail ELSE SubSeq(tail, 1, j - 1)]

\* new RegExp(source).test(url) for a source of literal characters
RegExpTest(source, url) == source = <<>> \/ StrIncludes(url, source)

\* URLMatcher.matches(url, pattern) for a url that new URL parses, as every
\* window.location.href of an https page is
matches(url, pattern) ==
  IF url = <<>> \/ pattern = <<>> THEN FALSE
  ELSE
    LET urlObj == URL(url)
        normalizedPattern == Trim(pattern)
        base == SubSeq(normalizedPattern, 1, Len(normalizedPattern) - 2)
        parts == SplitWildcard(normalizedPattern)
    IN  IF normalizeURL(url) = normalizeURL(normalizedPattern) THEN TRUE
        ELSE IF normalizedPattern = urlObj.hostname \/ normalizedPattern = urlObj.host
        THEN TRUE
        ELSE IF /\ StartsWith(normalizedPattern, <<"/">>)
                /\ \/ urlObj.pathname = normalizedPattern
                   \/ StartsWith(urlObj.pathname, normalizedPattern \o <<"/">>)
        THEN TRUE
        ELSE IF /\ StartsWith(normalizedPattern, <<"*", ".">>)
                /\ LET domain == SubSeq(normalizedPattern, 3, Len(normalizedPattern))
                   IN  \/ urlObj.hostname = domain
                       \/ EndsWith(urlObj.hostname, <<".">> \o domain)
        THEN TRUE
        ELSE IF /\ EndsWith(normalizedPattern, WildcardSuffix)
                /\ (urlObj.hostname = base \/ urlObj.host = base)
        THEN TRUE
        ELSE IF /\ StrIncludes(normalizedPattern, WildcardSuffix)
                /\ (urlObj.hostname = parts.base \/ urlObj.host = parts.base)
                /\ \/ parts.pathPattern = <<>>
                   \/ StartsWith(urlObj.pathname, parts.pathPattern)
        THEN TRUE
        ELSE IF StartsWith(normalizedPattern, <<"/">>) /\ EndsWith(normalizedPattern, <<"/">>)
        THEN RegExpTest(SubSeq(normalizedPattern, 2, Len(normalizedPattern) - 1), url)
        ELSE FALSE

\* URLMatcher.matchesAny(url, patterns)
matchesAny(url, patterns) ==
  \E i \in 1..Len(patterns) : matches(url, patterns[i])

\* excludedPages.find(page => urlMatcher.matches(currentURL, page)): the index of
\* the first matching pattern, 0 (undefined) when none matches
FindMatching(url, patterns) ==
  LET found == {i \in 1..Len(patterns) : matches(url, patterns[i])}
  IN  IF found = {} THEN 0 ELSE CHOOSE i \in found : \A j \in found : i <= j

-----------------------------------------------------------------------------
(* SpecToggle: the excluded pages as the control panel, the page API and the
   popup write them; every call awaited, writes succeed, flashcards enabled *)

MaxExcluded == 3

\* what a call on the excluded pages left behind: the page it ran on, whether
\* the page was excluded before and after, what the call returned, whether the
\* call before it was a toggle on the same page and what that one had found
PageCall(op, url, before, after) ==
  [op |-> op, url |-> url, before |-> before, after |-> after, flag |-> FALSE,
   twice |-> FALSE, first |-> FALSE]

NoPageCall == PageCall("none", <<>>, FALSE, FALSE)

\* the content script on the first page, nothing excluded
InitToggle ==
  /\ deps = FALSE
  /\ flashcards = <<>>
  /\ progress = NullProgress
  /\ store = FreshProgress
  /\ config = DEFAULT_ALGORITHM_CONFIG
  /\ configLoaded = FALSE
  /\ now = 10 * Day
  /\ failures = 0
  /\ extChanged = FALSE
  /\ ret = NoPageCall
  /\ calc = NoCalc
  /\ savedConfig = NoSavedConfig
  /\ excluded = <<>>
  /\ tasks = <<>>
  /\ overlay = NoOverlay
  /\ other = NullProgress
  /\ stopUntil = Null
  /\ location = RootPage

\* the tab goes to another page
Navigate(page) ==
  /\ page # location
  /\ location' = page
  /\ ret' = NoPageCall
  /\ UNCHANGED <<deps, flashcards, progress, store, config, configLoaded, now,
                 failures, extChanged, calc, savedConfig, excluded, tasks, overlay,
                 other, stopUntil>>

\* the list toggleCurrentPage leaves in storage
toggleCurrentPage(pages, currentURL) ==
  IF matchesAny(currentURL, pages)
  THEN LET i == FindMatching(currentURL, pages)
       IN  IF i # 0 THEN removeExcludedPage(pages, pages[i]) ELSE pages
  ELSE addExcludedPage(pages, currentURL)

\* ControlPanel.toggleCurrentPage, the click on the panel's toggle
ToggleCurrentPage ==
  LET after == toggleCurrentPage(excluded, location)
  IN  /\ Len(after) <= MaxExcluded
      /\ excluded' = after
      /\ ret' = [PageCall("toggleCurrentPage", location,
                          matchesAny(location, excluded), matchesAny(location, after))
                   EXCEPT !.twice = (ret.op = "toggleCurrentPage" /\ ret.url = location),
                          !.first = ret.before]
      /\ UNCHANGED <<deps, flashcards, progress, store, config, configLoaded, now,
                     failures, extChanged, calc, savedConfig, pageVars>>

\* Flashcards.excludeCurrentPage of the page API
ExcludeCurrentPage ==
  LET after == addExcludedPage(excluded, location)
  IN  /\ Len(after) <= MaxExcluded
      /\ excluded' = after
      /\ ret' = PageCall("excludeCurrentPage", location,
                         matchesAny(location, excluded), matchesAny(location, after))
      /\ UNCHANGED <<deps, flashcards, progress, store, config, configLoaded, now,
                     failures, extChanged, calc, savedConfig, pageVars>>

\* Flashcards.includeCurrentPage of the page API
IncludeCurrentPage ==
  LET i == FindMatching(location, excluded)
      after == IF i # 0 THEN removeExcludedPage(excluded, excluded[i]) ELSE excluded
  IN  /\ excluded' = after
      /\ ret' = PageCall("includeCurrentPage", location,
                         matchesAny(location, excluded), matchesAny(location, after))
      /\ UNCHANGED <<deps, flashcards, progress, store, config, configLoaded, now,
                     failures, extChanged, calc, savedConfig, pageVars>>

\* the list the popup's exclude-current handler leaves in storage for a tab url
\* that new URL parses: the wildcard of the origin replaces the entries of the
\* same origin, unless it is stored already
excludeCurrent(pages, tabUrl) ==
  LET origin == URL(tabUrl).origin
      wildcardPattern == origin \o WildcardSuffix
      kept == {page \in SeqRange(pages) :
                 IF URL(page).ok THEN URL(page).origin # origin
                 ELSE IF EndsWith(page, WildcardSuffix)
                 THEN LET b == URL(SubSeq(page, 1, Len(page) - 2))
                      IN  IF b.ok THEN b.origin # origin ELSE TRUE
                 ELSE TRUE}
  IN  IF ~Includes(pages, wildcardPattern)
      THEN Append(Filter(pages, kept), wildcardPattern)
      ELSE pages

\* the click on the popup's exclude-current button, the page being the active tab
PopupExcludeCurrent ==
  LET after == excludeCurrent(excluded, location)
  IN  /\ Len(after) <= MaxExcluded
      /\ excluded' = after
      /\ ret' = PageCall("excludeCurrent", location,
                         matchesAny(location, excluded), matchesAny(location, after))
      /\ UNCHANGED <<deps, flashcards, progress, store, config, configLoaded, now,
                     failures, extChanged, calc, savedConfig, pageVars>>

\* the click on a Remove button of the popup's list
PopupRemove ==
  \E i \in 1..Len(excluded) :
    LET after == Filter(excluded, SeqRange(excluded) \ {excluded[i]})
    IN  /\ excluded' = after
        /\ ret' = PageCall("popupRemove", location,
                           matchesAny(location, excluded), matchesAny(location, after))
        /\ UNCHANGED <<deps, flashcards, progress, store, config, configLoaded, now,
                       failures, extChanged, calc, savedConfig, pageVars>>

\* what shouldShowFlashcards returns with flashcards enabled
shouldShowFlashcards(currentURL, excludedPages) ==
  IF matchesAny(currentURL, excludedPages) THEN FALSE ELSE TRUE

\* Flashcards.shouldShowFlashcards, as init calls it on the page
ShouldShowFlashcards ==
  /\ ret' = [PageCall("shouldShowFlashcards", location,
                      matchesAny(location, excluded), matchesAny(location, excluded))
               EXCEPT !.flag = shouldShowFlashcards(location, excluded)]
  /\ UNCHANGED <<deps, flashcards, progress, store, config, configLoaded, now,
                 failures, extChanged, calc, savedConfig, excluded, pageVars>>

NextToggle ==
  \/ \E page \in Pages : Navigate(page)
  \/ ToggleCurrentPage
  \/ ExcludeCurrentPage
  \/ IncludeCurrentPage
  \/ PopupExcludeCurrent
  \/ PopupRemove
  \/ ShouldShowFlashcards

SpecToggle == InitToggle /\ [][NextToggle]_vars

-----------------------------------------------------------------------------
(* Properties *)

\* a getNextFlashcard call that ran with the catalog loaded: ret.card is what it
\* returned for the catalog, progress and clock of this state (no other step has happened since)
NextRan == ret.op = "getNextFlashcard" /\ ret.outcome = "ok" /\ flashcards # <<>>

\* tier 1 of getNextFlashcard: catalog items whose dueDate is absent or <= now
DueTier == {id \in SeqRange(flashcards) :
              LET d == getFlashcardProgress(progress, id).dueDate
              IN  Falsy(d) \/ d <= now}
\* tier 2: catalog items whose id is not in progress.completed
UnshownTier == SeqRange(flashcards) \ SeqRange(progress.completed)

\* C1: with dependencies wired and progress loaded getNextFlashcard returns a due
\* catalog item if one exists, otherwise a catalog item not in completed,
\* otherwise the item at the head of repeatLater, and null exactly when all
\* three tiers are empty.
C1_TierPriority ==
  NextRan =>
    IF DueTier # {} THEN ret.card \in DueTier
    ELSE IF UnshownTier # {} THEN ret.card \in UnshownTier
    ELSE IF progress.repeatLater # <<>> THEN ret.card = progress.repeatLater[1]
    ELSE ret.card = NullId

\* the catalog of C2: a is reviewed and overdue, b is due in the future, c was
\* never reviewed
C2_Catalog(a, b, c) ==
  /\ SeqRange(flashcards) = {a, b, c}
  /\ Len(flashcards) = 3 /\ a # b /\ b # c /\ a # c
  /\ LET pa == getFlashcardProgress(progress, a)
         pb == getFlashcardProgress(progress, b)
         pc == getFlashcardProgress(progress, c)
     IN  /\ pa.reviewCount > 0 /\ ~Falsy(pa.dueDate) /\ pa.dueDate < now
         /\ pb.reviewCount > 0 /\ ~Falsy(pb.dueDate) /\ pb.dueDate > now
         /\ pc.reviewCount = 0 /\ pc.dueDate = Null

\* C2 as stated: for a catalog of one overdue reviewed item, one future-dated
\* item and one never-reviewed item getNextFlashcard returns the overdue item.
C2_ReturnsOverdue ==
  \A a, b, c \in Ids : (NextRan /\ C2_Catalog(a, b, c)) => ret.card = a

\* C2 amended: for that catalog getNextFlashcard returns the never-reviewed item
\* (it is in the due tier, and the comparator orders it by reviewCount 0 before
\* every reviewed item).
C2_ReturnsNeverReviewed ==
  \A a, b, c \in Ids : (NextRan /\ C2_Catalog(a, b, c)) => ret.card = c

C2_Witness ==
  NextRan /\ \E a, b, c \in Ids : C2_Catalog(a, b, c) /\ ret.card = c

\* C3: every ease stored in progress.flashcardData is absent or an integer of at
\* least 130, and a first review leaves ease at config.baseEase.
C3_EaseFloor ==
  ~IsNull(progress) =>
    \A id \in DOMAIN progress.flashcardData :
      LET r == progress.flashcardData[id]
      IN  /\ r.ease = Null \/ r.ease >= 130
          /\ r.reviewCount = 1 => r.ease = config.baseEase

\* a first calculateReview call: reviewCount = 0 in the input
FirstReview ==
  calc.op = "calculateReview" /\ calc.called /\ calc.input.reviewCount = 0

\* C4 as stated: for reviewCount = 0 the returned interval is exactly 0.5, 1 or 4
\* days for Hard, Good, Easy, for every configuration.
C4_FirstIntervalExact ==
  FirstReview =>
    calc.out.interval = (CASE calc.difficulty = HARD -> 50
                           [] calc.difficulty = GOOD -> 100
                           [] calc.difficulty = EASY -> 400)

\* C4 amended: for reviewCount = 0 the interval does not depend on the incoming
\* ease or interval; it is the base value 0.5 / 1 / 4 days capped at
\* maxIntervalDays for Hard and, with the load balancer off, for Good and Easy;
\* with the load balancer on, Good and Easy give the base value times a factor
\* in [0.95, 1.05), capped at maxIntervalDays and rounded to two decimals.
C4_FirstIntervalAmended ==
  FirstReview =>
    LET base == CASE calc.difficulty = HARD -> 50
                  [] calc.difficulty = GOOD -> 100
                  [] calc.difficulty = EASY -> 400
        cap == 100 * calc.cfg.maxIntervalDays
        capped == IF base > cap THEN cap ELSE base
        i == calc.out.interval
    IN  IF calc.difficulty = HARD \/ ~calc.cfg.enableLoadBalancer
        THEN i = capped
        ELSE /\ i <= cap
             /\ i = cap \/ (95 * base <= 100 * i /\ 100 * i < 105 * base)
             /\ i < cap => \E k \in RandGrid : 100 * i = base * (95 + k)

C4_Witness ==
  /\ FirstReview /\ calc.difficulty = GOOD /\ calc.cfg.enableLoadBalancer
  /\ calc.input.ease = Null /\ calc.input.interval = 1000
  /\ calc.out.interval = 104

\* C5: when the storage write of recordReview or markForLater fails, the
\* progress visible to callers and the persisted progress are what they were
\* before the call.
C5_FailedWriteChangesNothing ==
  [][(ret'.op \in {"recordReview", "markForLater"} /\ ret'.saveFailed
      /\ ~IsNull(progress))
     => (progress' = progress /\ store' = store)]_vars

\* C6: every Scheduler operation, in every state (dependencies unset, progress
\* not loaded), returns its neutral value and never throws or rejects.
C6_NeverThrows == ret.outcome # "threw"

\* C7: after the persisted progress was changed from outside, the next
\* getNextFlashcard, getSchedulingStats or recordReview works on the persisted
\* value, and a later write does not persist the stale in-memory copy.
C7_WorksOnPersisted ==
  [][(extChanged /\ flashcards # <<>> /\ ret'.outcome = "ok"
      /\ ret'.op \in {"getNextFlashcard", "getSchedulingStats", "recordReview"})
     => progress = store]_vars

\* a recordReview call that reached the algorithm: ret.pre is the progress it
\* started from, progress the progress it left (no other step has happened since)
ReviewRan == ret.op = "recordReview" /\ ret.outcome = "ok"

RECURSIVE Occurrences(_, _)
Occurrences(seq, x) ==
  IF seq = <<>> THEN 0
  ELSE (IF seq[1] = x THEN 1 ELSE 0) + Occurrences(Tail(seq), x)

\* C8: after recordReview(id, Good or Easy) id is in progress.completed exactly
\* once and is not in progress.repeatLater.
C8_DoneOnceAndNotLater ==
  (ReviewRan /\ ret.difficulty \in {GOOD, EASY}) =>
    /\ Occurrences(progress.completed, ret.id) = 1
    /\ ~Includes(progress.repeatLater, ret.id)

\* a Good or Easy review of a card that was completed and queued for later before
C8_Witness ==
  /\ ReviewRan /\ ret.difficulty \in {GOOD, EASY}
  /\ Includes(ret.pre.completed, ret.id)
  /\ Includes(ret.pre.repeatLater, ret.id)
  /\ Len(ret.pre.repeatLater) = 2

\* C9: recordReview(id, Hard) leaves completed and repeatLater as they were and
\* changes only the ProgressRecord of id.
C9_HardKeepsQueues ==
  (ReviewRan /\ ret.difficulty = HARD) =>
    /\ progress.completed = ret.pre.completed
    /\ progress.repeatLater = ret.pre.repeatLater
    /\ DOMAIN progress.flashcardData = DOMAIN ret.pre.flashcardData \cup {ret.id}
    /\ \A i \in DOMAIN ret.pre.flashcardData \ {ret.id} :
         progress.flashcardData[i] = ret.pre.flashcardData[i]
    /\ progress.flashcardData[ret.id] # getFlashcardProgress(ret.pre, ret.id)

\* a Hard review of a card queued for later and not completed, next to a
\* completed one
C9_Witness ==
  /\ ReviewRan /\ ret.difficulty = HARD
  /\ Includes(ret.pre.repeatLater, ret.id)
  /\ ~Includes(ret.pre.completed, ret.id)
  /\ ret.pre.completed # <<>>

\* C10: recordReview(id, d) stores for id exactly what calculateReview returns
\* for the record stored before and d (reviewCount one higher) and leaves the
\* records of all other ids as they were.
C10_StoresCalculateReview ==
  ReviewRan =>
    LET old == getFlashcardProgress(ret.pre, ret.id)
        new == progress.flashcardData[ret.id]
    IN  /\ \E k \in RandSet :
             new = calculateReview(old, ret.difficulty, config, now, k)
        /\ new.reviewCount = old.reviewCount + 1
        /\ DOMAIN progress.flashcardData = DOMAIN ret.pre.flashcardData \cup {ret.id}
        /\ \A i \in DOMAIN ret.pre.flashcardData \ {ret.id} :
             progress.flashcardData[i] = ret.pre.flashcardData[i]

\* a jittered first review of one card while another card has a record of its own
C10_Witness ==
  /\ ReviewRan
  /\ DOMAIN ret.pre.flashcardData \ {ret.id} # {}
  /\ progress.flashcardData[ret.id].reviewCount = 1
  /\ progress.flashcardData[ret.id].interval = 95

\* C11: for every record reachable from a never-reviewed card by recordReview
\* calls and every outcome, the stored dueDate is strictly later than the time of
\* the review and lastReview > 0.
C11_DueAfterReview ==
  ReviewRan =>
    LET new == progress.flashcardData[ret.id]
    IN  new.dueDate > now /\ new.lastReview > 0

\* C12: for every record with reviewCount >= 1 and interval > 0 that recordReview
\* can produce, a Good review whose result is below maxIntervalDays gives an
\* interval strictly greater than the interval before.
C12_GoodGrows ==
  (ReviewRan /\ ret.difficulty = GOOD) =>
    LET old == getFlashcardProgress(ret.pre, ret.id)
        new == progress.flashcardData[ret.id]
    IN  (old.reviewCount >= 1 /\ old.interval > 0
         /\ new.interval < 100 * config.maxIntervalDays)
        => new.interval > old.interval

\* a calculateReview call that returned: calc.out is its result for calc.input,
\* calc.difficulty and calc.cfg at time now
Reviewed == calc.op = "calculateReview" /\ calc.called

\* a calculateReview call on a record with reviewCount >= 1 and a numeric ease
LaterReview == Reviewed /\ calc.input.reviewCount >= 1 /\ calc.input.ease \in Nat

\* C13: every record calculateReview returns has interval <= maxIntervalDays, for
\* every outcome, load balancer on or off, also for an input interval above the cap.
C13_IntervalCapped ==
  Reviewed => calc.out.interval <= 100 * calc.cfg.maxIntervalDays

\* an Easy review of a ten-day interval under a two-day cap, load balancer on
C13_Witness ==
  /\ Reviewed /\ calc.difficulty = EASY /\ calc.cfg.enableLoadBalancer
  /\ calc.cfg.maxIntervalDays = 2
  /\ calc.input.reviewCount = 1 /\ calc.input.interval = 1000
  /\ calc.input.ease = 250
  /\ calc.out.interval = 200

\* the interval calculateReview returns for calc.input with outcome d
OutInterval(d) == calculateReview(calc.input, d, calc.cfg, now, calc.k).interval

\* C14: for every record with reviewCount >= 1 and a configuration with
\* easyBonus >= 100 and intervalChangeHard <= 100, load balancer off, the Easy
\* interval >= the Good interval >= the Hard interval.
C14_EasyGoodHardOrdered ==
  (LaterReview /\ ~calc.cfg.enableLoadBalancer
   /\ calc.cfg.easyBonus >= 100 /\ calc.cfg.intervalChangeHard <= 100)
  => (OutInterval(EASY) >= OutInterval(GOOD) /\ OutInterval(GOOD) >= OutInterval(HARD))

\* a Hard calculateReview call on a reviewed record, load balancer off
HardReview ==
  /\ LaterReview /\ calc.difficulty = HARD
  /\ ~calc.cfg.enableLoadBalancer /\ calc.cfg.intervalChangeHard <= 100

RoundedProduct(i, a, b) == (2 * i * a + b) \div (2 * b)

\* C16: for reviewCount >= 1, ease e and interval i, load balancer off and below
\* the cap, the returned interval is i*intervalChangeHard/100 for Hard, i*e/100
\* for Good and i*(e/100)*(easyBonus/100) for Easy, rounded to two decimals;
\* reviewCount 1, ease 250, interval 1, Good gives interval 2.5, ease 250,
\* reviewCount 2.
C16_IntervalFormulas ==
  (LaterReview /\ ~calc.cfg.enableLoadBalancer) =>
    LET i == calc.input.interval
        e == calc.input.ease
        expected ==
          CASE calc.difficulty = HARD ->
                 RoundedProduct(i, calc.cfg.intervalChangeHard, 100)
            [] calc.difficulty = GOOD -> RoundedProduct(i, e, 100)
            [] calc.difficulty = EASY ->
                 RoundedProduct(i, e * calc.cfg.easyBonus, 10000)
    IN  /\ expected < 100 * calc.cfg.maxIntervalDays => calc.out.interval = expected
        /\ (calc.difficulty = GOOD /\ calc.input.reviewCount = 1 /\ e = 250
            /\ i = 100 /\ calc.cfg.maxIntervalDays > 2)
           => (calc.out.interval = 250 /\ calc.out.ease = 250
               /\ calc.out.reviewCount = 2)

\* the end-to-end example of C16
C16_Witness ==
  /\ LaterReview /\ ~calc.cfg.enableLoadBalancer /\ calc.difficulty = GOOD
  /\ calc.input.reviewCount = 1 /\ calc.input.ease = 250 /\ calc.input.interval = 100
  /\ calc.out.interval = 250 /\ calc.out.ease = 250 /\ calc.out.reviewCount = 2

\* C17: for reviewCount >= 1 and integer ease e the returned ease is
\* max(130, e - 20) for Hard, e for Good and e + 15 for Easy.
C17_EaseUpdate ==
  LaterReview =>
    LET e == calc.input.ease
    IN  calc.out.ease = (CASE calc.difficulty = HARD ->
                                IF e - 20 > 130 THEN e - 20 ELSE 130
                           [] calc.difficulty = GOOD -> e
                           [] calc.difficulty = EASY -> e + 15)

\* Hard at the floor: ease 130 stays 130
C17_Witness ==
  /\ LaterReview /\ calc.difficulty = HARD
  /\ calc.input.ease = 130 /\ calc.out.ease = 130

\* what every calculateReview result carries besides interval and ease
C18_Counters ==
  /\ calc.out.reviewCount = calc.input.reviewCount + 1
  /\ calc.out.difficulty = calc.difficulty
  /\ calc.out.lastReview = now

\* C18 as stated: reviewCount = input reviewCount + 1, difficulty = the outcome,
\* lastReview = the review time, and dueDate = review time + the interval the
\* record reports, in days.
C18_DueFromReportedInterval ==
  Reviewed =>
    /\ C18_Counters
    /\ calc.out.dueDate = now + (calc.out.interval * Day) \div 100

\* C18 amended: reviewCount, difficulty and lastReview as stated; dueDate = review
\* time + the capped (and jittered) interval before it is rounded, while the
\* record reports that interval rounded to two decimals: the two differ by less
\* than a hundredth of a day.
C18_DueFromUnroundedInterval ==
  Reviewed =>
    LET newInterval == NewInterval(calc.input, calc.difficulty, calc.cfg, calc.k)
    IN  /\ C18_Counters
        /\ calc.out.dueDate = now + CeilTicks(newInterval)
        /\ calc.out.interval = RoundHundredths(newInterval)
        /\ calc.out.dueDate - now - (calc.out.interval * Day) \div 100 \in {0, 1}

\* Good on 0.01 days with ease 130: 0.013 days until due, 0.01 reported
C18_Witness ==
  /\ Reviewed /\ calc.difficulty = GOOD
  /\ calc.input.interval = 1 /\ calc.input.ease = 130 /\ calc.input.reviewCount = 1
  /\ calc.out.interval = 1
  /\ calc.out.dueDate > now + (calc.out.interval * Day) \div 100

\* the quotient a / b of two fractions, b > 0, cancelling before multiplying
QRatio(a, b) ==
  LET g1 == GCD(a.n, b.n)
      g2 == GCD(a.d, b.d)
      h1 == IF g1 = 0 THEN 1 ELSE g1
  IN  Q((a.n \div h1) * (b.d \div g2), (a.d \div g2) * (b.n \div h1))

\* C19: jitter is applied only when enableLoadBalancer is true and the interval
\* before jitter is >= 1 day; the jittered interval then lies within [0.95, 1.05]
\* times the interval before jitter; otherwise the interval is left alone and the
\* result does not depend on the random source.
C19_JitterBand ==
  Reviewed =>
    LET pre == ReviewStep(calc.input, calc.difficulty, calc.cfg).interval
        post == Balanced(pre, calc.cfg, calc.k)
    IN  /\ calc.out.interval = RoundHundredths(QMin(post, calc.cfg.maxIntervalDays))
        /\ IF calc.cfg.enableLoadBalancer /\ pre.n >= pre.d
           THEN LET r == QRatio(post, pre)
                IN  95 * r.d <= 100 * r.n /\ 100 * r.n <= 105 * r.d
           ELSE /\ post = pre
                /\ \A k \in RandGrid :
                     calculateReview(calc.input, calc.difficulty, calc.cfg, now, k)
                       = calc.out

\* Good on one day with ease 250 and Math.random() = 0: 2.5 days become 2.375
C19_Witness ==
  /\ Reviewed /\ calc.difficulty = GOOD /\ calc.k = 0
  /\ calc.cfg.enableLoadBalancer /\ calc.cfg.maxIntervalDays > 2
  /\ calc.input.reviewCount = 1 /\ calc.input.ease = 250 /\ calc.input.interval = 100
  /\ calc.out.interval = 238

\* an isDue call that returned
DueChecked == calc.op = "isDue" /\ calc.called

\* C20: isDue(record) is true whenever the record's dueDate is absent and
\* otherwise true exactly when now >= dueDate.
C20_IsDue ==
  DueChecked =>
    calc.out = (IF calc.input.dueDate \in {Null, Undefined} THEN TRUE
                ELSE now >= calc.input.dueDate)

\* a record due exactly now
C20_Witness ==
  DueChecked /\ calc.input.dueDate = now /\ calc.out = TRUE

\* the dueDate getFlashcardProgress reports for the catalog item at position i
DueDateAt(i) == getFlashcardProgress(progress, flashcards[i]).dueDate

\* the catalog positions of the due tier
DuePositions == {i \in 1..Len(flashcards) : flashcards[i] \in DueTier}

\* every item of the due tier has a dueDate
AllDueDated == DueTier # {} /\ \A i \in DuePositions : ~Falsy(DueDateAt(i))

\* C21: when every due item has a dueDate, getNextFlashcard returns the due item
\* with the least dueDate, and of those with that dueDate the first in catalog
\* order; the pick is a function of catalog, progress and clock.
C21_EarliestDueFirst ==
  (NextRan /\ AllDueDated) =>
    \E i \in DuePositions :
      /\ ret.card = flashcards[i]
      /\ \A j \in DuePositions : DueDateAt(i) <= DueDateAt(j)
      /\ \A j \in DuePositions : j < i => DueDateAt(i) < DueDateAt(j)

\* two dated due items, the later one in the catalog is due earlier and returned
C21_Witness ==
  /\ NextRan /\ AllDueDated
  /\ \E i, j \in DuePositions :
       i < j /\ DueDateAt(j) < DueDateAt(i) /\ ret.card = flashcards[j]

\* a markForLater call that ran to its end
LaterRan == ret.op = "markForLater" /\ ret.outcome = "ok"

\* C22: progress.repeatLater never holds an id more than once; after
\* markForLater(id), also when repeated, id is in the queue exactly once; and a
\* call made while progress is not loaded leaves the persisted progress loaded
\* with id in its queue.
C22_LaterQueueWithoutDuplicates ==
  /\ ~IsNull(progress) =>
       \A id \in Ids : Occurrences(progress.repeatLater, id) <= 1
  /\ LaterRan =>
       /\ ~IsNull(progress)
       /\ Occurrences(progress.repeatLater, ret.id) = 1
       /\ IsNull(ret.pre) => progress = store

\* markForLater(id) repeated while another id is queued as well
C22_Witness ==
  /\ LaterRan /\ ~IsNull(ret.pre)
  /\ Includes(ret.pre.repeatLater, ret.id)
  /\ Len(progress.repeatLater) = 2

\* C23: every id in progress.completed has a stored record with reviewCount >= 1.
C23_CompletedWereReviewed ==
  ~IsNull(progress) =>
    \A i \in 1..Len(progress.completed) :
      /\ progress.completed[i] \in DOMAIN progress.flashcardData
      /\ progress.flashcardData[progress.completed[i]].reviewCount >= 1

\* a Good or Easy review has just put its card into completed, and the queue
\* of another call is non-empty as well
C23_Witness ==
  /\ ReviewRan /\ MarksDone(ret.difficulty)
  /\ Includes(progress.completed, ret.id)
  /\ ~Includes(ret.pre.completed, ret.id)
  /\ progress.repeatLater # <<>>

\* a field that is null or undefined
Absent(v) == v = Null \/ v = Undefined

\* C24: with progress loaded, for every id the record getFlashcardProgress
\* reports has reviewCount = 0 exactly when its lastReview and its dueDate are
\* both absent.
C24_UnreviewedIffUndated ==
  ~IsNull(progress) =>
    \A id \in Ids :
      LET r == getFlashcardProgress(progress, id)
      IN  r.reviewCount = 0 <=> (Absent(r.lastReview) /\ Absent(r.dueDate))

\* a review has just been recorded: its record is dated, another one is not
C24_Witness ==
  /\ ReviewRan
  /\ LET r == getFlashcardProgress(progress, ret.id)
     IN  r.reviewCount >= 1 /\ r.lastReview = now /\ r.dueDate >= now
  /\ \E id \in Ids : getFlashcardProgress(progress, id).reviewCount = 0

\* C25: with dependencies wired getSchedulingStats returns new = the number of
\* catalog items with reviewCount 0, due = the number with reviewCount > 0 that
\* are due, later = the number of catalog items in repeatLater and total = the
\* catalog size, so that new + due <= total.
C25_StatsCountTheCatalog ==
  (ret.op = "getSchedulingStats" /\ ret.outcome # "nodeps") =>
    LET pos == 1..Len(flashcards)
        rec(i) == getFlashcardProgress(progress, flashcards[i])
    IN  /\ ret.outcome = "ok"
        /\ ret.stats.new = Cardinality({i \in pos : rec(i).reviewCount = 0})
        /\ ret.stats.due =
             Cardinality({i \in pos : rec(i).reviewCount > 0 /\ isDue(rec(i), now)})
        /\ ret.stats.later =
             Cardinality({i \in pos : Includes(progress.repeatLater, flashcards[i])})
        /\ ret.stats.total = Len(flashcards)
        /\ ret.stats.new + ret.stats.due <= ret.stats.total

\* C27: after resetProgress, from any prior state, completed and repeatLater are
\* empty, getFlashcardProgress reports the default record for every id, the
\* persisted progress is the same, and getSchedulingStats counts every catalog
\* item as new.
C27_ResetRestoresDefaults ==
  ret.op = "resetProgress" =>
    /\ ~IsNull(progress)
    /\ progress.completed = <<>> /\ progress.repeatLater = <<>>
    /\ \A id \in Ids : getFlashcardProgress(progress, id) = DefaultFlashcardProgress
    /\ store = progress
    /\ LET stats == getSchedulingStats(flashcards, progress, now)
       IN  stats.new = stats.total /\ stats.total = Len(flashcards)

\* a reset of progress that held a record, a completed id and a queued id
C27_Witness ==
  /\ ret.op = "resetProgress" /\ deps /\ flashcards # <<>>
  /\ ~IsNull(ret.pre)
  /\ ret.pre.completed # <<>> /\ ret.pre.repeatLater # <<>>
  /\ progress = FreshProgress

\* a hasFlashcardsAvailable call that ran with the catalog loaded
AvailableRan ==
  ret.op = "hasFlashcardsAvailable" /\ ret.outcome = "ok" /\ flashcards # <<>>

\* C28: with dependencies wired and progress loaded, while a catalog item is not
\* in completed getNextFlashcard returns a catalog item and
\* hasFlashcardsAvailable returns true; so a non-empty catalog with fresh
\* progress yields a catalog item, and a catalog of one new item yields that item.
C28_UnshownIsAvailable ==
  /\ (NextRan /\ UnshownTier # {}) =>
       /\ ret.card # NullId
       /\ ret.card \in SeqRange(flashcards)
  /\ (AvailableRan /\ UnshownTier # {}) => ret.flag
  /\ (NextRan /\ progress = FreshProgress /\ Len(flashcards) = 1) =>
       ret.card = flashcards[1]

\* nothing is due and a card reviewed Hard, not in completed, is returned
C28_Witness ==
  /\ NextRan /\ DueTier = {} /\ UnshownTier # {}
  /\ ret.card \in UnshownTier
  /\ getFlashcardProgress(progress, ret.card).reviewCount > 0

\* a calculateReview call made after an updateConfig call
ReviewAfterUpdate ==
  calc.op = "calculateReview" /\ calc.called /\ ret.op = "updateConfig"

\* C26: the configuration the next calculateReview uses after
\* updateConfig(partial) is the configuration in effect before the update with
\* the keys of partial replaced, whether or not loadConfig ran before the update.
C26_UpdateMergesIntoConfig ==
  ReviewAfterUpdate => calc.cfg = Merge(ret.before, ret.partial)

\* C29: the stored excluded list holds no url twice, holds url after
\* addExcludedPage(url) and does not hold url after removeExcludedPage(url).
C29_ExcludedPagesAreASet ==
  /\ \A url \in Urls : Occurrences(excluded, url) <= 1
  /\ ret.op = "addExcludedPage" => Includes(excluded, ret.id)
  /\ ret.op = "removeExcludedPage" => ~Includes(excluded, ret.id)

\* addExcludedPage(url) for the url at the head of a list of three: it was in
\* the list already
C29_Witness ==
  /\ ret.op = "addExcludedPage"
  /\ Len(excluded) = 3 /\ excluded[1] = ret.id

\* a calculateInitialEase call that returned
InitialEaseRan == calc.op = "calculateInitialEase" /\ calc.called

\* C30: calculateInitialEase returns round(baseEase + (linkedEase - baseEase) *
\* maxLinkContribution / 100) when a linkedEase is given and maxLinkContribution
\* > 0, and baseEase otherwise, raised to the floor 130; this for every
\* linkedEase, 0 included.
C30_InitialEase ==
  InitialEaseRan =>
    LET linkedEase == calc.options.linkedEase
        baseEase == calc.cfg.baseEase
        ease == IF ~Absent(linkedEase) /\ calc.cfg.maxLinkContribution > 0
                THEN RoundHalfUp(100 * baseEase
                                 + (linkedEase - baseEase) * calc.cfg.maxLinkContribution,
                                 100)
                ELSE baseEase
    IN  calc.out = Max(130, ease)

\* a getNextFlashcard call that answered from the unshown tier: nothing was due
UnshownTierRan == NextRan /\ DueTier = {} /\ ret.card \in UnshownTier

\* C31: every item getNextFlashcard returns through the unshown tier has
\* reviewCount = 0; a card rated Hard whose dueDate is in the future is not
\* returned by that tier.
C31_UnshownNeverReviewed ==
  UnshownTierRan =>
    LET r == getFlashcardProgress(progress, ret.card)
    IN  r.reviewCount = 0 /\ ~(r.difficulty = HARD /\ r.dueDate > now)

\* C38: with the catalog loaded, every id in completed, in repeatLater and in the
\* progress map is the id of a catalog item, so completed is never longer than
\* the catalog.
C38_OnlyCatalogIds ==
  (~IsNull(progress) /\ flashcards # <<>>) =>
    /\ SeqRange(progress.completed) \subseteq SeqRange(flashcards)
    /\ SeqRange(progress.repeatLater) \subseteq SeqRange(flashcards)
    /\ DOMAIN progress.flashcardData \subseteq SeqRange(flashcards)
    /\ Len(progress.completed) <= Len(flashcards)

\* C32: with recordReview suspended at its writes while resetProgress runs, every
\* id in completed still has a stored record, with reviewCount >= 1.
C32_CompletedWereReviewedAcrossAwaits ==
  \A id \in Ids :
    Includes(progress.completed, id) =>
      /\ id \in DOMAIN progress.flashcardData
      /\ getFlashcardProgress(progress, id).reviewCount >= 1

\* a handleReview call that has hidden the overlay; ret.shown is the record the
\* card was displayed with
HandleReviewRan == ret.op = "handleReview"

\* C33: for one displayed card at most one review is recorded, also when
\* handleReview is invoked again before the first recordReview has completed:
\* when the overlay is hidden the stored reviewCount is at most one more than
\* the displayed one.
C33_OneReviewPerDisplay ==
  HandleReviewRan =>
    getFlashcardProgress(progress, ret.id).reviewCount <= ret.shown.reviewCount + 1

\* a showFlashcardOnLoad call made while a stop period was stored and no
\* handleLater call was still on its way to hide the overlay
OnLoadRanStopped ==
  ret.op = "showFlashcardOnLoad" /\ ~Falsy(ret.stopBefore) /\ ret.settled

NoShowInProgress == \A i \in 1..Len(tasks) : tasks[i].op # "show"

\* C37: whenever no overlay is attached and no show() call is in progress, the
\* page scrolls and no Escape handler is registered.
C37_HiddenOverlayLeavesNothing ==
  (~isVisible(overlay) /\ NoShowInProgress) =>
    ~overlay.scrollLocked /\ overlay.listeners = 0


\* both contexts have loaded the progress and have recorded reviews, each on a
\* card of its own
TabsReviewedDifferentIds ==
  /\ ~IsNull(progress) /\ ~IsNull(other)
  /\ \E a, b \in {"fc-1", "fc-2"} :
       /\ a # b
       /\ ret.recorded[1][a] > 0 /\ ret.recorded[2][a] = 0
       /\ ret.recorded[2][b] > 0 /\ ret.recorded[1][b] = 0

\* C34: when two contexts that each loaded the progress record reviews on
\* different ids, the persisted progress holds both updates: every card reviewed
\* by one context only has a stored record counting all its reviews.
C34_BothUpdatesPersisted ==
  TabsReviewedDifferentIds =>
    \A id \in {"fc-1", "fc-2"} :
      /\ id \in DOMAIN store.flashcardData
      /\ store.flashcardData[id].reviewCount
           = ret.recorded[1][id] + ret.recorded[2][id]


\* a toggleCurrentPage call that returned
ToggleRan == ret.op = "toggleCurrentPage"

\* C36: toggleCurrentPage flips the exclusion status of the current URL for any
\* stored excluded list: excluded before, it matches no pattern after; matched
\* by none before, it is excluded after; two consecutive toggles restore the
\* status the page had before the first.
C36_ToggleFlips ==
  ToggleRan =>
    /\ ret.after = ~ret.before
    /\ ret.twice => (ret.after = ret.first)

\* C39: after the popup's exclude-current action on an https page every page of
\* that origin matches the stored list, and with the origin's pattern stored
\* shouldShowFlashcards returns false on those pages.
C39_PopupExcludesOrigin ==
  /\ ret.op = "excludeCurrent" =>
        \A page \in Pages :
          URL(page).origin = URL(ret.url).origin => matchesAny(page, excluded)
  /\ (/\ ret.op = "shouldShowFlashcards"
      /\ Includes(excluded, URL(ret.url).origin \o WildcardSuffix)) => ~ret.flag

====
